---- MODULE Spec2Model ----
(***************************************************************************)
(* Verification model of roseingrave's data reconciliation core:           *)
(*   - PieceData.make_default / PieceData.with_defaults (_piece_data.py)   *)
(*   - Source.combine, Piece.__init__, Piece._add_sources, Piece.combine   *)
(*     (_piece.py)                                                         *)
(*   - the summary slot loop of Piece.export_master_sheet (_piece.py)      *)
(*   - Piece.create_master_sheet and the summary cycle (_piece.py)         *)
(*   - _validate_source, _validate_piece (_output_files.py),               *)
(*     PieceData.add_volunteer (_piece_data.py), _extract_pieces           *)
(*     (piece_summary.py)                                                  *)
(*   - read_template, read_piece_definitions, read_volunteer_definitions   *)
(*     (_input_files.py), Volunteer (_volunteer.py)                        *)
(* Each part has its own specification over the shared variables; the      *)
(* variables of the other parts stay at their idle values.                 *)
(***************************************************************************)
EXTENDS Integers, Sequences, FiniteSets, TLC

VARIABLES
    \* ---- PieceData.with_defaults ----
    bar_count,          \* PieceData._bar_count
    exclude_comments,   \* argument of with_defaults
    is_notes,           \* argument of with_defaults
    values,             \* the raw document given to with_defaults
    first,              \* result of with_defaults(values)
    second,             \* result of with_defaults(first.fixed)
    rpc,                \* "input" -> "once" -> "twice"
    \* ---- Source.combine ----
    src,                \* the Source object combine is called on
    srcOrig,            \* the Source as constructed
    srcOther,           \* the Source last combined into src
    srcSeen,            \* the bar counts and supplemental flags seen so far
    \* ---- Piece ----
    piece,              \* the Piece object (pieces[name] in _piece_definitions)
    last,               \* what the last operation on piece was
    \* ---- Piece.export_master_sheet ----
    grid,               \* the columns 1..notes_col-1 of the sheet
    col,                \* loop position
    sources,            \* the list `sources`
    has_curr,           \* FALSE while curr_source is still {}
    epc,                \* "loop", "done", "error", "raised"
    \* ---- the summary cycle: create_master_sheet, export, read_summary ----
    rdoc,               \* summary[title], the piece_data given to create_master_sheet
    rdoc0,              \* the summary document the cycles started from
    cycle,              \* number of completed cycles
    \* ---- read_volunteer_data ----
    fixed_pieces,       \* the target `fixed_pieces` of the volunteer being read
    raw_piece,          \* the raw piece last given to _validate_piece
    lenient,            \* its result with strict=False
    strictr,            \* its result with strict=True on the same target
    titles_read,        \* the titles of the raw pieces read so far
    nread,              \* number of raw pieces read
    vpc,                \* "loop", "read", "error"
    \* ---- _extract_pieces ----
    volunteers_data,    \* email -> title -> validated piece
    to_extract,         \* the titles of `pieces` (the pieces being extracted)
    extracted,          \* result of _extract_pieces with strict=False
    extracted_strict,   \* result of _extract_pieces with strict=True
    xpc,                \* "input", "done"
    \* ---- read_piece_definitions ----
    pieces,             \* the dict `pieces` of _piece_definitions
    given,              \* the entries of the file read so far
    entry,              \* the outcome of constructing the entry read last
    defs,               \* the result of read_piece_definitions
    dpc,                \* "loop", "done", "failed", "raised"
    \* ---- read_volunteer_definitions ----
    volunteers,         \* the dict `volunteers` of _volunteer_definitions
    unknown_pieces,     \* the flag `unknown_pieces`
    listed,             \* the entries of the file read so far
    constructed,        \* the outcome of constructing the entry read last
    vols,               \* result of read_volunteer_definitions with strict=False
    vols_strict,        \* result of read_volunteer_definitions with strict=True
    vdpc,               \* "loop", "done", "failed"
    \* ---- read_template ----
    raw_values,         \* the parsed template definitions file
    template,           \* result of read_template with strict=False
    template_strict,    \* result of read_template with strict=True
    tpc,                \* "input", "done"
    \* ---- the create_sheet and import_summary commands ----
    command,            \* "create_sheet" or "import_summary"
    options,            \* the flags of the command and of the template
    spreadsheets,       \* the spreadsheets index in memory: key -> "old"/"new"
    index_file,         \* the spreadsheets index file on disk
    drive,              \* the spreadsheets created in this run that exist
    created,            \* the list `created` of create_spreadsheets
    create_for,         \* the emails create_spreadsheets has still to do
    to_populate,        \* the emails populate_spreadsheets has still to do
    current,            \* the email of the spreadsheet being set up
    cpc,                \* position in the command
    stopped,            \* the step a failure stopped the command in
    \* ---- _hyperlink and _parse_hyperlink on strings ----
    hl_text,            \* the display text
    hl_link,            \* the link, if any
    hl_cell,            \* the cell _hyperlink writes
    hl_parsed,          \* what _parse_hyperlink returns for the cell
    hpc,                \* "input", "written", "parsed"
    \* ---- note_str and parse_note ----
    note_items,         \* the items (email, note) of a notes mapping, in order
    note_cell,          \* the cell of the notes column note_str writes
    note_parsed,        \* what parse_note returns for the cell
    npc,                \* "input", "written", "parsed"
    \* ---- Piece.create_sheet and Piece.export_sheet ----
    sheet_piece,        \* the piece the sheet is created for
    sheet_values,       \* the cells of the sheet, row by row
    sheet_edits,        \* how many cells the volunteer has filled in
    sheet_out,          \* what export_sheet returns
    shpc,               \* "input", "created", "exported"
    \* ---- the fix_input command ----
    fix_given,          \* the file keys given on the command line
    fix_files,          \* the set `files` after filtering
    pieces_file,        \* the piece definitions file on disk
    pieces_file0,       \* the piece definitions file before the command
    template_ok,        \* whether read_template succeeds
    pieces_error,       \* the variable `pieces_error` of fix_input
    fix_pieces,         \* the variable `pieces` of fix_input
    fix_done,           \* the fix steps run so far, in order
    fix_result,         \* what _fix_volunteers did
    fpc,                \* the step fix_input is at
    \* ---- the worksheets of one spreadsheet while it is populated ----
    ws_mode,            \* "populate", "summary" or "master"
    ws_flags,           \* extend_spreadsheet, strict, and whether the
                        \* spreadsheet can be edited
    ws_titles,          \* the titles of the worksheets, in order
    ws_existing,        \* the titles in `existing_sheets`
    ws_temp,            \* the title of `temp_sheet`, if there is one
    ws_pieces,          \* the names of the piece sheets to create, in order
    ws_copied,          \* the pieces that have a sheet in `sheets` already
    ws_next,            \* the position of the loop over the pieces
    ws_error,           \* why the service rejected a request
    wpc,                \* the step of the protocol
    \* ---- _read_settings ----
    settings_file,      \* the settings file roseingrave.json
    SETTINGS,           \* the global SETTINGS of the process
    returned            \* what the calls of _read_settings returned, in order

reconVars  == <<bar_count, exclude_comments, is_notes, values, first, second, rpc>>
sourceVars == <<src, srcOrig, srcOther, srcSeen>>
pieceVars  == <<piece, last>>
exportVars == <<grid, col, sources, has_curr, epc>>
rotVars    == <<rdoc, rdoc0, cycle>>
valVars    == <<fixed_pieces, raw_piece, lenient, strictr, titles_read, nread, vpc>>
extVars    == <<volunteers_data, to_extract, extracted, extracted_strict, xpc>>
defVars    == <<pieces, given, entry, defs, dpc>>
volVars    == <<volunteers, unknown_pieces, listed, constructed, vols, vols_strict, vdpc>>
tplVars    == <<raw_values, template, template_strict, tpc>>
createVars == <<command, options, spreadsheets, index_file, drive, created,
                create_for, to_populate, current, cpc, stopped>>
linkVars   == <<hl_text, hl_link, hl_cell, hl_parsed, hpc>>
noteVars   == <<note_items, note_cell, note_parsed, npc>>
sheetVars  == <<sheet_piece, sheet_values, sheet_edits, sheet_out, shpc>>
fixVars    == <<fix_given, fix_files, pieces_file, pieces_file0, template_ok,
                pieces_error, fix_pieces, fix_done, fix_result, fpc>>
wsVars     == <<ws_mode, ws_flags, ws_titles, ws_existing, ws_temp, ws_pieces,
                ws_copied, ws_next, ws_error, wpc>>
cacheVars  == <<settings_file, SETTINGS, returned>>
lateVars   == <<sheetVars, fixVars, wsVars, cacheVars>>
toolVars   == <<createVars, linkVars, noteVars, lateVars>>
coreVars   == <<reconVars, sourceVars, pieceVars, exportVars, rotVars, valVars,
                extVars, defVars, volVars, tplVars>>
vars == <<coreVars, toolVars>>

\* what the operations of one part leave alone
inputVars  == <<defVars, volVars, tplVars, toolVars>>
notRecon   == <<sourceVars, pieceVars, exportVars, rotVars, valVars, extVars, inputVars>>
notSource  == <<reconVars, pieceVars, exportVars, rotVars, valVars, extVars, inputVars>>
notPiece   == <<reconVars, sourceVars, exportVars, rotVars, valVars, extVars, inputVars>>
notExport  == <<reconVars, sourceVars, pieceVars, rotVars, valVars, extVars, inputVars>>
notRot     == <<reconVars, sourceVars, pieceVars, valVars, extVars, inputVars>>
notVal     == <<reconVars, sourceVars, pieceVars, exportVars, rotVars, inputVars>>
notDef     == <<reconVars, sourceVars, pieceVars, exportVars, rotVars, valVars, extVars,
                volVars, tplVars, toolVars>>
notVol     == <<reconVars, sourceVars, pieceVars, exportVars, rotVars, valVars, extVars,
                defVars, tplVars, toolVars>>
notTpl     == <<reconVars, sourceVars, pieceVars, exportVars, rotVars, valVars, extVars,
                defVars, volVars, toolVars>>

notCreate  == <<coreVars, linkVars, noteVars, lateVars>>
notLink    == <<coreVars, createVars, noteVars, lateVars>>
notNote    == <<coreVars, createVars, linkVars, lateVars>>
earlyVars  == <<coreVars, createVars, linkVars, noteVars>>
notSheet   == <<earlyVars, fixVars, wsVars, cacheVars>>
notFix     == <<earlyVars, sheetVars, wsVars, cacheVars>>
notWs      == <<earlyVars, sheetVars, fixVars, cacheVars>>
notCache   == <<earlyVars, sheetVars, fixVars, wsVars>>

\* Python's None
None == "None"

Max2(a, b) == IF a >= b THEN a ELSE b

(***************************************************************************)
(* Values of a JSON document: strings and dicts, tagged so that they can   *)
(* be compared with each other.                                            *)
(***************************************************************************)
Str(s) == <<"str", s>>
Dict(d) == <<"dict", d>>
EmptyDict == Dict(<<>>)

\* str(n) of a non-negative int: its decimal digits
Digit == <<"0", "1", "2", "3", "4", "5", "6", "7", "8", "9">>
RECURSIVE str(_)
str(n) == IF n < 10 THEN Digit[n + 1] ELSE str(n \div 10) \o Digit[(n % 10) + 1]

(***************************************************************************)
(* PieceData                                                               *)
(***************************************************************************)
\* bounds of the reconcile model
MaxBars == 2

\* PieceData._headers: the keys of template['metaDataFields'] (the first two
\* of the default template; reading a template never adds a key to them)
Headers == {"title", "tempo"}

\* a document: its keys other than 'bars' (fields), and its 'bars' dict
Doc(fields, hasBars, bars) == [fields |-> fields, hasBars |-> hasBars, bars |-> bars]
Keys(doc) == DOMAIN doc.fields \cup (IF doc.hasBars THEN {"bars"} ELSE {})

\* value() of make_default
DefaultValue(notes) == IF notes THEN EmptyDict ELSE Str("")

MakeDefault(n, notes) ==
    Doc([k \in Headers \cup (IF notes THEN {} ELSE {"comments"}) |-> DefaultValue(notes)],
        TRUE,
        [b \in {str(bar_num + 1) : bar_num \in 0..(n - 1)} |-> DefaultValue(notes)])

\* fixed.pop('comments', None)
PopComments(doc) ==
    Doc([k \in DOMAIN doc.fields \ {"comments"} |-> doc.fields[k]], doc.hasBars, doc.bars)

\* lines 208-213: the loop over values['bars']
ExtraBars(raw, fixed_bars) ==
    IF raw.hasBars THEN DOMAIN raw.bars \ DOMAIN fixed_bars ELSE {}

MissingBars(raw, fixed_bars) ==
    IF raw.hasBars THEN DOMAIN fixed_bars \ DOMAIN raw.bars ELSE {}

FixedBars_WriteExtra(raw, fixed_bars) ==
    IF raw.hasBars
    THEN [b \in DOMAIN fixed_bars \cup DOMAIN raw.bars |->
            IF b \in DOMAIN raw.bars THEN raw.bars[b] ELSE fixed_bars[b]]
    ELSE fixed_bars

FixedBars(raw, fixed_bars) ==
    [b \in DOMAIN fixed_bars |->
        IF raw.hasBars /\ b \in DOMAIN raw.bars THEN raw.bars[b] ELSE fixed_bars[b]]

\* lines 215-222: the loop over values.items()
SavedKeys(raw) == DOMAIN raw.fields \ {"name", "link", "bars"}

UnknownFields(raw, fixed0) == {k \in SavedKeys(raw) : k \notin Keys(fixed0)}

MissingFields_NoPop(raw, fixed0) ==
    Keys(fixed0) \ (IF raw.hasBars THEN {"bars"} ELSE {})

MissingFields(raw, fixed0) ==
    (Keys(fixed0) \ (IF raw.hasBars THEN {"bars"} ELSE {}))
        \ (SavedKeys(raw) \ UnknownFields(raw, fixed0))

FixedFields_KeepUnknown(raw, fixed0) ==
    [k \in DOMAIN fixed0.fields \cup SavedKeys(raw) |->
        IF k \in SavedKeys(raw) THEN raw.fields[k] ELSE fixed0.fields[k]]

FixedFields(raw, fixed0) ==
    [k \in DOMAIN fixed0.fields |->
        IF k \in SavedKeys(raw) THEN raw.fields[k] ELSE fixed0.fields[k]]

WithDefaults(raw, n, exclude, notes) ==
    LET made == MakeDefault(n, notes)
        fixed0 == IF exclude THEN PopComments(made) ELSE made
        extra_bars == ExtraBars(raw, fixed0.bars)
        missing_bars == MissingBars(raw, fixed0.bars)
        unknown_fields == UnknownFields(raw, fixed0)
        missing_fields == MissingFields(raw, fixed0)
    IN  [warning |-> missing_fields # {} \/ missing_bars # {}
                        \/ extra_bars # {} \/ unknown_fields # {},
         fixed |-> Doc(FixedFields(raw, fixed0), TRUE, FixedBars(raw, fixed0.bars)),
         missing_fields |-> missing_fields,
         missing_bars |-> missing_bars,
         extra_bars |-> extra_bars,
         unknown_fields |-> unknown_fields]

\* ---- inputs of the reconcile model ----
\* keys a raw document may carry: the template's, the reserved ones, an unknown one
RawValues(notes) == IF notes THEN {EmptyDict, Dict([e \in {"a@x"} |-> "n"])}
                    ELSE {Str(""), Str("x")}
\* the values of dropped keys are never read: one value is enough for them
RawFieldValues(k, notes) == IF k \in {"name", "link", "junk"} THEN {Str("x")}
                            ELSE RawValues(notes)
RawFieldKeys == Headers \cup {"comments", "name", "link", "junk"}
RawBarKeys == {str(i) : i \in 1..(MaxBars + 1)} \cup {"01"}

RawFields(notes) ==
    UNION {{f \in [K -> RawValues(notes) \cup {Str("x")}] :
                \A k \in K : f[k] \in RawFieldValues(k, notes)} :
              K \in SUBSET RawFieldKeys}

RawBars(notes) == UNION {[K -> RawValues(notes)] : K \in SUBSET RawBarKeys}

RawDocs(notes) ==
    {Doc(f, FALSE, <<>>) : f \in RawFields(notes)}
        \cup {Doc(f, TRUE, b) : f \in RawFields(notes), b \in RawBars(notes)}

NoResult == [warning |-> FALSE, fixed |-> Doc(<<>>, FALSE, <<>>),
             missing_fields |-> {}, missing_bars |-> {},
             extra_bars |-> {}, unknown_fields |-> {}]

ReconIdle ==
    /\ bar_count = 0 /\ exclude_comments = FALSE /\ is_notes = FALSE
    /\ values = Doc(<<>>, FALSE, <<>>) /\ first = NoResult /\ second = NoResult
    /\ rpc = "idle"

ReconInputs ==
    /\ bar_count \in 1..MaxBars
    /\ exclude_comments \in BOOLEAN
    /\ is_notes \in BOOLEAN
    /\ values \in RawDocs(is_notes)
    /\ first = NoResult /\ second = NoResult
    /\ rpc = "input"

\* warning, fixed = piece.with_defaults(values, loc, exclude_comments, is_notes)
Reconcile ==
    /\ rpc = "input"
    /\ first' = WithDefaults(values, bar_count, exclude_comments, is_notes)
    /\ rpc' = "once"
    /\ UNCHANGED <<bar_count, exclude_comments, is_notes, values, second>>
    /\ UNCHANGED notRecon

\* with_defaults applied to its own output, same flags
ReconcileAgain ==
    /\ rpc = "once"
    /\ second' = WithDefaults(first.fixed, bar_count, exclude_comments, is_notes)
    /\ rpc' = "twice"
    /\ UNCHANGED <<bar_count, exclude_comments, is_notes, values, first>>
    /\ UNCHANGED notRecon

(***************************************************************************)
(* Claims about PieceData.with_defaults (checked under SpecRecon)          *)
(***************************************************************************)
\* the default shape for the given flags
Shape == IF exclude_comments
         THEN PopComments(MakeDefault(bar_count, is_notes))
         ELSE MakeDefault(bar_count, is_notes)
\* the keys the source document carries for its own identity, never data
Reserved == {"name", "link"}

\* C1: the document returned by with_defaults has exactly the key set of the
\* default shape for the same flags (every metaDataFields key, 'bars', and
\* 'comments' unless excluded or in notes mode); an input key that is not in
\* the shape is not in the output and (unless it is the reserved 'name' or
\* 'link') is flagged as unknown with a warning; a shape key absent from the
\* input is in the output with the zero value, and flagged with a warning.
C1_ExactFieldSet ==
    rpc # "input" =>
        /\ Keys(first.fixed) = Keys(Shape)
        /\ Keys(Shape) = Headers \cup {"bars"}
              \cup (IF exclude_comments \/ is_notes THEN {} ELSE {"comments"})
        /\ \A k \in Keys(values) \ Keys(Shape) :
              /\ k \notin Keys(first.fixed)
              /\ k \notin Reserved => k \in first.unknown_fields /\ first.warning
        /\ \A k \in Keys(Shape) \ Keys(values) :
              /\ k \in first.missing_fields /\ first.warning
              /\ k # "bars" => first.fixed.fields[k] = DefaultValue(is_notes)
              /\ k = "bars" => first.fixed.bars = Shape.bars

C1_Witness ==
    /\ rpc = "once"
    /\ "junk" \in Keys(values) /\ "name" \in Keys(values)
    /\ "title" \notin Keys(values) /\ "tempo" \in Keys(values)
    /\ ~values.hasBars

\* the strings "1".."N"
BarNames(n) == {ToString(i) : i \in 1..n}

\* C2: make_default's 'bars' has exactly the keys "1".."N" and so has the
\* 'bars' returned by with_defaults; a raw bar key outside is reported as an
\* extra bar and not written; a bar of 1..N missing from the raw document is
\* reported (as a missing bar, or with the whole 'bars' field when the raw
\* document has none) and keeps the default value.
C2_BarContiguity ==
    /\ rpc # "idle" => DOMAIN MakeDefault(bar_count, is_notes).bars = BarNames(bar_count)
    /\ rpc \in {"once", "twice"} =>
        /\ first.fixed.hasBars
        /\ DOMAIN first.fixed.bars = BarNames(bar_count)
        /\ values.hasBars =>
              /\ first.extra_bars = DOMAIN values.bars \ BarNames(bar_count)
              /\ first.extra_bars # {} => first.warning
              /\ first.missing_bars = BarNames(bar_count) \ DOMAIN values.bars
              /\ \A b \in BarNames(bar_count) \cap DOMAIN values.bars :
                    first.fixed.bars[b] = values.bars[b]
        /\ \A b \in BarNames(bar_count) :
              (~values.hasBars \/ b \notin DOMAIN values.bars) =>
                  /\ first.warning
                  /\ b \in first.missing_bars \/ "bars" \in first.missing_fields
                  /\ first.fixed.bars[b] = DefaultValue(is_notes)

C2_Witness ==
    /\ rpc = "once" /\ bar_count = MaxBars /\ values.hasBars
    /\ first.extra_bars = {"01", str(MaxBars + 1)}
    /\ first.missing_bars = {"1"}

\* C3: with_defaults applied to the document a first with_defaults returned,
\* with the same flags, reports nothing (no missing field, no missing bar, no
\* extra bar, no unknown field) and returns an equal document.
C3_ReconcileRoundTrip ==
    rpc = "twice" =>
        /\ ~second.warning
        /\ second.missing_fields = {} /\ second.missing_bars = {}
        /\ second.extra_bars = {} /\ second.unknown_fields = {}
        /\ second.fixed = first.fixed

C3_Witness ==
    /\ rpc = "twice" /\ first.warning
    /\ first.missing_fields # {} /\ first.unknown_fields # {}
    /\ first.extra_bars # {} /\ first.missing_bars # {}

(***************************************************************************)
(* Source and Piece (_piece.py)                                            *)
(***************************************************************************)
\* bounds of the Source / Piece model
MaxBarCount == 2
MaxSources == 2
\* template['values']['defaultBarCount'] of the default template
DefaultBarCount == 100

\* an optional int: <<>> is None, <<n>> is n
NoInt == <<>>
Some(n) == <<n>>

_max_Sum(a, b) ==
    IF a = NoInt /\ b = NoInt THEN NoInt
    ELSE IF a = NoInt THEN b
    ELSE IF b = NoInt THEN a
    ELSE Some(a[1] + b[1])

_max(a, b) ==
    IF a = NoInt /\ b = NoInt THEN NoInt
    ELSE IF a = NoInt THEN b
    ELSE IF b = NoInt THEN a
    ELSE Some(Max2(a[1], b[1]))

Names == {"Foo", "Bar"}
Links == {"u", "v"}
OptBarCounts == {NoInt} \cup {Some(n) : n \in 1..MaxBarCount}

\* the JSON dicts Source.__init__ accepts ('barCount' and 'supplemental' are
\* optional: NoInt and FALSE stand for an absent key)
SourceArgs(links) ==
    [name : Names, link : links, barCount : OptBarCounts, supplemental : BOOLEAN]

Source(kwargs) ==
    [name |-> kwargs.name, link |-> kwargs.link,
     bar_count |-> kwargs.barCount, is_supplemental |-> kwargs.supplemental]

Source_combine_Reset(self, other) ==
    [self EXCEPT !.bar_count = _max(self.bar_count, other.bar_count),
                 !.is_supplemental = other.is_supplemental]

Source_combine(self, other) ==
    [self EXCEPT !.bar_count = _max(self.bar_count, other.bar_count),
                 !.is_supplemental = IF ~self.is_supplemental
                                     THEN other.is_supplemental
                                     ELSE self.is_supplemental]

\* ---- the Source state machine ----
AllSources == {Source(k) : k \in SourceArgs(Links)}

SourceIdle ==
    /\ src = Source([name |-> "", link |-> "", barCount |-> NoInt, supplemental |-> FALSE])
    /\ srcOrig = src /\ srcOther = src
    /\ srcSeen = [bars |-> {}, supp |-> FALSE]

SourceInputs ==
    /\ src \in AllSources
    /\ srcOrig = src /\ srcOther = src
    /\ srcSeen = [bars |-> {b[1] : b \in {src.bar_count} \ {NoInt}},
                  supp |-> src.is_supplemental]

\* existing_source.combine(source)
SourceCombine ==
    \E other \in AllSources :
        /\ src' = Source_combine(src, other)
        /\ srcOther' = other
        /\ srcSeen' = [bars |-> srcSeen.bars \cup {b[1] : b \in {other.bar_count} \ {NoInt}},
                       supp |-> srcSeen.supp \/ other.is_supplemental]
        /\ UNCHANGED srcOrig
        /\ UNCHANGED notSource

\* ---- Piece ----
\* a dict name -> Source (the insertion order of the dict is not modelled)
EmptyMap == <<>>
Put(map, name, source) ==
    [n \in DOMAIN map \cup {name} |-> IF n = name THEN source ELSE map[n]]
Pop(map, name) == [n \in DOMAIN map \ {name} |-> map[n]]

\* lines 250-273: the loop of _add_sources over the list `list`
RECURSIVE AddLoop(_, _, _)
AddLoop(prim, supp, list) ==
    IF list = <<>> THEN [sources |-> prim, supplemental_sources |-> supp]
    ELSE
        LET source == Head(list)
            name == source.name
            rest == Tail(list)
        IN  IF name \in DOMAIN prim
            THEN LET existing_source == Source_combine(prim[name], source)
                 IN  IF existing_source.is_supplemental
                     THEN AddLoop(Pop(prim, name), Put(supp, name, existing_source), rest)
                     ELSE AddLoop(Put(prim, name, existing_source), supp, rest)
            ELSE IF name \in DOMAIN supp
            THEN AddLoop(prim, Put(supp, name, Source_combine(supp[name], source)), rest)
            ELSE IF source.is_supplemental
            THEN AddLoop(prim, Put(supp, name, source), rest)
            ELSE AddLoop(Put(prim, name, source), supp, rest)

\* lines 276-279
OnlySupplemental_Stale(self, maps) ==
    DOMAIN self.sources = {} /\ DOMAIN self.supplemental_sources # {}

OnlySupplemental(self, maps) ==
    DOMAIN maps.sources = {} /\ DOMAIN maps.supplemental_sources # {}

\* lines 282-284: _max folded over the non-supplemental sources
RECURSIVE FoldMax(_, _, _)
FoldMax(acc, map, names) ==
    IF names = {} THEN acc
    ELSE LET n == CHOOSE x \in names : TRUE
         IN  FoldMax(_max(acc, map[n].bar_count), map, names \ {n})

BarCount_AllSources(self, maps) ==
    FoldMax(FoldMax(self.initial_bar_count, maps.sources, DOMAIN maps.sources),
            maps.supplemental_sources, DOMAIN maps.supplemental_sources)

BarCount(self, maps) ==
    FoldMax(self.initial_bar_count, maps.sources, DOMAIN maps.sources)

_add_sources(self, list) ==
    LET maps == AddLoop(self.sources, self.supplemental_sources, list)
    IN  [self EXCEPT !.sources = maps.sources,
                     !.supplemental_sources = maps.supplemental_sources,
                     !.only_supplemental = OnlySupplemental(self, maps),
                     !.bar_count = BarCount(self, maps)]

\* the JSON dicts Piece.__init__ accepts with every source constructible
\* ('link' and 'barCount' are optional: None and NoInt stand for an absent key)
PieceLinks == {None, "p", "q"}
SourceLists(links) == UNION {[1..k -> SourceArgs(links)] : k \in 0..MaxSources}
\* (the sources of a piece definition all carry the link "u": a differing
\* link only logs a warning, and SpecSource covers it)
PieceArgs ==
    [title : {"K1"}, link : PieceLinks, barCount : OptBarCounts,
     sources : SourceLists({"u"})]

\* Piece.__init__
Piece(kwargs) ==
    _add_sources([name |-> kwargs.title, link |-> kwargs.link,
                  initial_bar_count |-> kwargs.barCount,
                  only_supplemental |-> FALSE,
                  sources |-> EmptyMap, supplemental_sources |-> EmptyMap,
                  bar_count |-> NoInt],
                 [i \in 1..Len(kwargs.sources) |-> Source(kwargs.sources[i])])

\* the property Piece.sources: list(self._sources.values())
RECURSIVE ValuesList(_, _)
ValuesList(map, names) ==
    IF names = {} THEN <<>>
    ELSE LET n == CHOOSE x \in names : TRUE
         IN  <<map[n]>> \o ValuesList(map, names \ {n})
Piece_sources(self) == ValuesList(self.sources, DOMAIN self.sources)

final_bar_count(self) ==
    IF self.bar_count = NoInt THEN DefaultBarCount ELSE self.bar_count[1]

Piece_combine(self, other) ==
    LET linked == IF self.link = None THEN [self EXCEPT !.link = other.link] ELSE self
        counted == IF linked.initial_bar_count = NoInt
                   THEN [linked EXCEPT !.initial_bar_count = other.initial_bar_count]
                   ELSE linked
    IN  _add_sources(counted, Piece_sources(other))

\* every Piece a definition can construct
Pieces == {Piece(k) : k \in PieceArgs}

PieceIdle ==
    /\ piece = Piece([title |-> "", link |-> None, barCount |-> NoInt, sources |-> <<>>])
    /\ last = [op |-> "idle", identical |-> FALSE, sources |-> {}, supplemental |-> {}]

\* piece = Piece(args, template); pieces[name] = piece
PieceInputs ==
    /\ piece \in Pieces
    /\ last = [op |-> "new", identical |-> FALSE, sources |-> {}, supplemental |-> {}]

\* piece = Piece(args, template); pieces[name].combine(piece)
PieceCombine ==
    \E other \in Pieces :
        /\ piece' = Piece_combine(piece, other)
        /\ last' = [op |-> "combine", identical |-> (other = piece),
                    sources |-> DOMAIN other.sources,
                    supplemental |-> DOMAIN other.supplemental_sources]
        /\ UNCHANGED notPiece

(***************************************************************************)
(* Claims about Source and Piece                                           *)
(***************************************************************************)
SetMax(S) == CHOOSE m \in S : \A x \in S : x <= m
SourceNames(self) == DOMAIN self.sources
SupplementalNames(self) == DOMAIN self.supplemental_sources
Combined == last.op = "combine"

\* C4: combining a piece with an identical copy leaves the names of its
\* primary source map and of its supplemental source map as they were, and
\* leaves final_bar_count unchanged.  (checked under SpecPiece)
C4_IdempotentCombine ==
    [][(last'.op = "combine" /\ last'.identical) =>
          /\ SourceNames(piece') = SourceNames(piece)
          /\ SupplementalNames(piece') = SupplementalNames(piece)
          /\ final_bar_count(piece') = final_bar_count(piece)]_vars

C4_Witness ==
    /\ Combined /\ last.identical
    /\ SourceNames(piece) # {} /\ SupplementalNames(piece) # {}
    /\ \E n \in SourceNames(piece) : piece.sources[n].bar_count # NoInt

\* C5: when piece A has the non-supplemental primary source "Foo" and piece B
\* has a source "Foo" marked supplemental, then after A.combine(B) "Foo" is
\* out of A's primary sources and in A's supplemental sources, and if "Foo"
\* was A's only primary source, A.only_supplemental is true.
\* (checked under SpecPiece)
C5_SupplementalMigration ==
    [][(last'.op = "combine" /\ "Foo" \in SourceNames(piece)
            /\ "Foo" \in last'.supplemental) =>
          /\ "Foo" \notin SourceNames(piece')
          /\ "Foo" \in SupplementalNames(piece')
          /\ SourceNames(piece) = {"Foo"} => piece'.only_supplemental]_vars

\* C6: after A.combine(B) every source of B, primary or supplemental, is in
\* A by name (primary or supplemental), and every source A had is still in A.
\* (checked under SpecPiece)
C6_CombineMergesBothMaps ==
    [][last'.op = "combine" =>
          /\ last'.sources \cup last'.supplemental
                \subseteq SourceNames(piece') \cup SupplementalNames(piece')
          /\ SourceNames(piece) \cup SupplementalNames(piece)
                \subseteq SourceNames(piece') \cup SupplementalNames(piece')]_vars

\* C7: after construction and after every combine, only_supplemental is true
\* exactly when the primary source map is empty and the supplemental source
\* map is not.  (checked under SpecPiece)
C7_OnlySupplemental ==
    last.op \in {"new", "combine"} =>
        (piece.only_supplemental <=>
            (SourceNames(piece) = {} /\ SupplementalNames(piece) # {}))

C7_Witness ==
    /\ Combined /\ piece.only_supplemental
    /\ last.sources = {} /\ last.supplemental # {}

\* the bar counts given by the piece's non-supplemental sources
GivenBySources(self) ==
    {self.sources[n].bar_count[1] :
        n \in {m \in SourceNames(self) : self.sources[m].bar_count # NoInt}}
\* the piece's barCount override, when one was given
GivenByPiece(self) == {b[1] : b \in {self.initial_bar_count} \ {NoInt}}

\* C8 as claimed: final_bar_count is the maximum bar count of the
\* non-supplemental sources when one of them has a bar count; otherwise the
\* piece's barCount override when given; otherwise the template's default.
C8_SourcesBeforeOverride ==
    last.op \in {"new", "combine"} =>
        final_bar_count(piece) =
            IF GivenBySources(piece) # {} THEN SetMax(GivenBySources(piece))
            ELSE IF GivenByPiece(piece) # {} THEN SetMax(GivenByPiece(piece))
            ELSE DefaultBarCount

\* C8 (amended): final_bar_count is the maximum of the piece's barCount
\* override (when given) and the bar counts of its non-supplemental sources,
\* when any of these is given; otherwise the template's defaultBarCount.
\* Supplemental sources never contribute.  (checked under SpecPiece)
C8_FinalBarCount ==
    last.op \in {"new", "combine"} =>
        final_bar_count(piece) =
            IF GivenBySources(piece) \cup GivenByPiece(piece) # {}
            THEN SetMax(GivenBySources(piece) \cup GivenByPiece(piece))
            ELSE DefaultBarCount

C8_Witness ==
    /\ Combined
    /\ GivenBySources(piece) # {}
    /\ \E n \in SupplementalNames(piece) :
          /\ piece.supplemental_sources[n].bar_count # NoInt
          /\ piece.supplemental_sources[n].bar_count[1] > final_bar_count(piece)

\* C9: over any sequence of Source.combine calls the source's bar_count is
\* the maximum of the bar counts seen so far (absent if all were absent), its
\* is_supplemental flag is true exactly when some source seen so far was
\* supplemental and is never reset to false, and its name and link stay those
\* it was constructed with.  (checked under SpecSource)
C9_SourceCombine ==
    /\ [](/\ src.bar_count = IF srcSeen.bars = {} THEN NoInt
                             ELSE Some(SetMax(srcSeen.bars))
          /\ src.is_supplemental = srcSeen.supp
          /\ src.name = srcOrig.name /\ src.link = srcOrig.link)
    /\ [][src.is_supplemental => src'.is_supplemental]_vars

C9_Witness ==
    /\ ~srcOrig.is_supplemental /\ src.is_supplemental /\ ~srcOther.is_supplemental
    /\ srcOrig.bar_count = NoInt /\ src.bar_count = Some(MaxBarCount)
    /\ srcOther.bar_count = Some(1)
    /\ srcOther.link # src.link

(***************************************************************************)
(* Piece.export_master_sheet: the summary slot loop (_piece.py)            *)
(***************************************************************************)
\* bound of the export model: the number of columns before the notes column
MaxCols == 3

\* a cell of the sheet, read with value_render_option='formula'
Text(t) == <<"text", t>>
Formula(link, text) == <<"formula", link, text>>
Blank == Text("")

\* _parse_hyperlink: (link, text) of a cell that holds a HYPERLINK formula
\* with a non-empty link and text, else (None, None)
_parse_hyperlink(cell) ==
    IF cell[1] = "formula" /\ cell[2] # "" /\ cell[3] # ""
    THEN <<cell[2], cell[3]>>
    ELSE <<None, None>>

\* a column of the sheet: its row 1 cell, its row 2 cell, and its cells in
\* the header rows, the bar rows (top down) and the comments row
Emails == {"a@x", "b@x"}
SheetColumn(headers, bars, comments) ==
    [headers |-> headers, bars |-> bars, comments |-> comments]
ColumnData ==
    {SheetColumn([h \in Headers |-> Str(t)], <<Str(t)>>, Str(t)) : t \in {"x", "y"}}
HeaderCells == {Blank, Text("Foo"), Formula("u", "Foo"), Formula("v", "Bar")}
Columns == [row1 : HeaderCells, row2 : Emails, cells : ColumnData]
Grids == UNION {[1..k -> Columns] : k \in 1..MaxCols}

\* the summary slot: <<>> is None, else <<(email, column)>>
EmptySlot == <<>>
Occupied(email, column) == <<[email |-> email, column |-> column]>>

\* lines 680-687: the dict `column` of a column; the bar in the i-th bar
\* row is keyed by that row's cell in the first column of the sheet, where
\* create_master_sheet wrote i
BarLabels(n) == {str(bar_num + 1) : bar_num \in 0..(n - 1)}
BarRow(label, n) == CHOOSE i \in 1..n : str(i) = label
export_column(cells) ==
    Doc([k \in Headers \cup {"comments"} |->
            IF k = "comments" THEN cells.comments ELSE cells.headers[k]],
        TRUE,
        [b \in BarLabels(Len(cells.bars)) |-> cells.bars[BarRow(b, Len(cells.bars))]])

\* lines 669-674
NewSource(name, link) ==
    [name |-> name, link |-> link, volunteers |-> EmptyMap, summary |-> EmptySlot]

\* lines 689-694 on curr_source
SetSummary_NoPush(source, email, column) ==
    [source EXCEPT !.summary = Occupied(email, column)]

SetSummary(source, email, column) ==
    LET pushed == IF source.summary # EmptySlot
                  THEN [source EXCEPT !.volunteers =
                            Put(source.volunteers, source.summary[1].email,
                                source.summary[1].column)]
                  ELSE source
    IN  [pushed EXCEPT !.summary = Occupied(email, column)]

ExportIdle ==
    /\ grid = <<>> /\ col = 0 /\ sources = <<>> /\ has_curr = FALSE /\ epc = "idle"

\* lines 656-658: before the first column
ExportInputs ==
    /\ grid \in Grids
    /\ col = 1 /\ sources = <<>> /\ has_curr = FALSE /\ epc = "loop"

\* lines 658-694: one iteration of `for col in range(1, notes_col)`
\* (curr_source is the last element of `sources`)
ExportColumn ==
    /\ epc = "loop" /\ col <= Len(grid)
    /\ LET c == grid[col]
           parsed == _parse_hyperlink(c.row1)
           started == IF c.row1 # Blank
                      THEN Append(sources, NewSource(parsed[2], parsed[1]))
                      ELSE sources
       IN  IF c.row1 # Blank /\ parsed[1] = None
           THEN \* return _error(...)
                epc' = "error" /\ UNCHANGED <<col, sources, has_curr>>
           ELSE IF c.row1 = Blank /\ ~has_curr
           THEN \* curr_source is {}: curr_source['summary'] raises KeyError
                epc' = "raised" /\ UNCHANGED <<col, sources, has_curr>>
           ELSE /\ sources' = [started EXCEPT ![Len(started)] =
                                  SetSummary(started[Len(started)], c.row2,
                                             export_column(c.cells))]
                /\ has_curr' = TRUE
                /\ col' = col + 1
                /\ UNCHANGED epc
    /\ UNCHANGED grid
    /\ UNCHANGED notExport

\* lines 696-699: fix all summaries
ExportFinish ==
    /\ epc = "loop" /\ col > Len(grid)
    /\ sources' = [i \in 1..Len(sources) |->
                      [sources[i] EXCEPT !.summary = <<sources[i].summary[1].column>>]]
    /\ epc' = "done"
    /\ UNCHANGED <<grid, col, has_curr>>
    /\ UNCHANGED notExport

(***************************************************************************)
(* Claims about the summary slot                                           *)
(***************************************************************************)
\* the columns that start a source, in order, and the columns of a source
Starts == {i \in 1..Len(grid) : grid[i].row1 # Blank}
StartOf(k) == CHOOSE i \in Starts : Cardinality({j \in Starts : j <= i}) = k
LastOf(k) ==
    IF \E i \in Starts : i > StartOf(k)
    THEN (CHOOSE i \in Starts : i > StartOf(k) /\ \A j \in Starts : j > StartOf(k) => i <= j) - 1
    ELSE Len(grid)
\* the columns of source k read so far
ReadOf(k) == {i \in StartOf(k)..LastOf(k) : i < col}
Earlier(k) == StartOf(k)..(LastOf(k) - 1)

\* C10 as claimed: at the end a source's 'summary' is the data of its last
\* column and its 'volunteers' map holds the data of every earlier column
\* under that column's row-2 email.
C10_NoColumnDropped ==
    epc = "done" =>
        /\ Len(sources) = Cardinality(Starts)
        /\ \A k \in 1..Len(sources) :
              /\ sources[k].summary = <<export_column(grid[LastOf(k)].cells)>>
              /\ DOMAIN sources[k].volunteers = {grid[i].row2 : i \in Earlier(k)}
              /\ \A i \in Earlier(k) :
                    sources[k].volunteers[grid[i].row2] = export_column(grid[i].cells)

\* C10 (amended): while the columns are read, the slot of the source being
\* read holds the email and data of the column read last and 'volunteers'
\* holds, for every row-2 email of the source's columns read before it, the
\* data of the last of these columns with that email; at the end 'summary'
\* is the data of the source's last column and 'volunteers' holds every
\* earlier column's data under its row-2 email, except that of two earlier
\* columns with the same email only the later one is kept.
\* (checked under SpecExport)
C10_SummarySlot ==
    /\ epc = "loop" =>
          /\ Len(sources) = Cardinality({i \in Starts : i < col})
          /\ \A k \in 1..Len(sources) :
                LET read == ReadOf(k)
                    top == SetMax(read)
                    before == read \ {top}
                IN  /\ sources[k].summary = Occupied(grid[top].row2, export_column(grid[top].cells))
                    /\ DOMAIN sources[k].volunteers = {grid[i].row2 : i \in before}
                    /\ \A i \in before :
                          sources[k].volunteers[grid[i].row2] =
                              export_column(grid[SetMax({j \in before : grid[j].row2 = grid[i].row2})].cells)
    /\ epc = "done" =>
          /\ Len(sources) = Cardinality(Starts)
          /\ \A k \in 1..Len(sources) :
                /\ sources[k].summary = <<export_column(grid[LastOf(k)].cells)>>
                /\ DOMAIN sources[k].volunteers = {grid[i].row2 : i \in Earlier(k)}
                /\ \A i \in Earlier(k) :
                      sources[k].volunteers[grid[i].row2] =
                          export_column(grid[SetMax({j \in Earlier(k) : grid[j].row2 = grid[i].row2})].cells)
                /\ (\A i, j \in Earlier(k) : grid[i].row2 = grid[j].row2 => i = j) =>
                      \A i \in Earlier(k) :
                          sources[k].volunteers[grid[i].row2] = export_column(grid[i].cells)

C10_Witness ==
    /\ epc = "done" /\ Len(grid) = MaxCols /\ Len(sources) = 1
    /\ \A i, j \in 1..Len(grid) : i # j => grid[i].row2 # grid[j].row2 \/ i = Len(grid) \/ j = Len(grid)
    /\ Cardinality(DOMAIN sources[1].volunteers) = MaxCols - 1

(***************************************************************************)
(* The pieces the data commands know, PieceData, and the validation of     *)
(* data files (_output_files.py)                                           *)
(***************************************************************************)
\* a piece definitions file: K1 with a link and two sources, K2 with no
\* link and one source, both with one bar
KnownDefinitions ==
    <<[title |-> "K1", link |-> "p", barCount |-> Some(1),
       sources |-> <<[name |-> "Foo", link |-> "u", barCount |-> NoInt,
                      supplemental |-> FALSE],
                     [name |-> "Bar", link |-> "u", barCount |-> NoInt,
                      supplemental |-> FALSE]>>],
      [title |-> "K2", link |-> None, barCount |-> Some(1),
       sources |-> <<[name |-> "Foo", link |-> "u", barCount |-> NoInt,
                      supplemental |-> FALSE]>>]>>
KnownTitles == {KnownDefinitions[i].title : i \in DOMAIN KnownDefinitions}
KnownPieces ==
    [t \in KnownTitles |->
        Piece(KnownDefinitions[CHOOSE i \in DOMAIN KnownDefinitions :
                                   KnownDefinitions[i].title = t])]

\* SourceData.__init__ and PieceData.__init__
SourceData(source) ==
    [name |-> source.name, link |-> source.link, volunteers |-> EmptyMap]
PieceData(p) ==
    [name |-> p.name, link |-> p.link, bar_count |-> final_bar_count(p),
     sources |-> [n \in DOMAIN p.sources |-> SourceData(p.sources[n])],
     notes |-> MakeDefault(final_bar_count(p), TRUE)]
\* read_piece_definitions(as_data=True)
KnownData == [t \in KnownTitles |-> PieceData(KnownPieces[t])]

all_sources(self) == DOMAIN self.sources
has_source(self, name) == name \in DOMAIN self.sources
with_defaults(self, raw, exclude, notes) ==
    WithDefaults(raw, self.bar_count, exclude, notes)

\* the warnings one call of with_defaults logs, in the order it logs them
Logged(r, loc) ==
    (IF r.missing_fields # {} THEN << <<"Missing fields", loc>> >> ELSE <<>>)
    \o (IF r.missing_bars # {} THEN << <<"Missing bar numbers", loc>> >> ELSE <<>>)
    \o (IF r.extra_bars # {} THEN << <<"Extra bars", loc>> >> ELSE <<>>)
    \o (IF r.unknown_fields # {} THEN << <<"Unknown fields", loc>> >> ELSE <<>>)

\* an optional value: <<>> when the key is absent
Absent == <<>>
Present(v) == <<v>>

\* a raw source of a data file: `doc` holds its string-valued keys and its
\* bars, `volunteers` and `summary` its two structured keys
RawSource(doc, raw_volunteers, summary) ==
    [doc |-> doc, volunteers |-> raw_volunteers, summary |-> summary]
SourceKeys(raw_source) ==
    Keys(raw_source.doc)
        \cup (IF raw_source.volunteers # Absent THEN {"volunteers"} ELSE {})
        \cup (IF raw_source.summary # Absent THEN {"summary"} ELSE {})
\* raw_source as the `values` of with_defaults
SourceValues(raw_source) ==
    Doc([k \in SourceKeys(raw_source) \ {"bars"} |->
            IF k \in DOMAIN raw_source.doc.fields THEN raw_source.doc.fields[k]
            ELSE EmptyDict],
        raw_source.doc.hasBars, raw_source.doc.bars)

\* what _validate_source and _validate_piece return and leave behind:
\* whether there was an error, the target dict, the warnings logged
Validated(had_error, target, warnings) ==
    [had_error |-> had_error, target |-> target, warnings |-> warnings]

\* _validate_source lines 348-357: the loop over raw_source['volunteers']
RECURSIVE FixVolunteers(_, _, _, _, _, _, _)
FixVolunteers(self, raw_volunteers, emails, s_loc, strict, fixed, warnings) ==
    IF emails = {} THEN Validated(FALSE, fixed, warnings)
    ELSE LET email == CHOOSE e \in emails : TRUE
             v_loc == s_loc \o ", volunteer " \o email
             fix(r, logged) ==
                 IF strict /\ r.warning
                 THEN Validated(TRUE, fixed, logged)
                 ELSE FixVolunteers(self, raw_volunteers, emails \ {email}, s_loc,
                                    strict, Put(fixed, email, r.fixed), logged)
             log(r) == fix(r, warnings \o Logged(r, v_loc))
         IN  log(with_defaults(self, raw_volunteers[email], FALSE, FALSE))

\* the entry _validate_source adds to `sources`
FixedSource(name, link, fixed, fixed_volunteers, summary) ==
    [name |-> name, link |-> link, values |-> fixed,
     volunteers |-> fixed_volunteers, summary |-> summary]

\* _validate_source lines 338-380, after the unknown and repeated checks
FixSource(self, added, raw_source, name, s_link, s_loc, strict, has_volunteers, has_summary) ==
    LET link_warning == s_link # self.sources[name].link
        w1 == IF link_warning THEN << <<"Incorrect source link", s_loc>> >> ELSE <<>>
        values_of(r) == Validated(strict /\ r.warning, r.fixed, w1 \o Logged(r, s_loc))
        add(vs, sm, w3) ==
            IF vs.had_error THEN Validated(TRUE, added, vs.warnings)
            ELSE IF has_summary /\ strict /\ sm.warning THEN Validated(TRUE, added, w3)
            ELSE Validated(FALSE,
                           Put(added, name,
                               FixedSource(name, s_link,
                                           IF has_volunteers THEN Absent
                                           ELSE Present(vs.target),
                                           IF has_volunteers THEN Present(vs.target)
                                           ELSE Absent,
                                           IF has_summary THEN Present(sm.fixed)
                                           ELSE Absent)),
                           w3)
        summary_of(vs, sm) ==
            add(vs, sm, IF has_summary THEN vs.warnings \o Logged(sm, s_loc)
                        ELSE vs.warnings)
    IN  IF strict /\ link_warning THEN Validated(TRUE, added, w1)
        ELSE summary_of(IF has_volunteers
                        THEN FixVolunteers(self, raw_source.volunteers[1],
                                           DOMAIN raw_source.volunteers[1], s_loc,
                                           strict, EmptyMap, w1)
                        ELSE values_of(with_defaults(self, SourceValues(raw_source),
                                                     FALSE, FALSE)),
                        with_defaults(self, raw_source.summary[1], FALSE, FALSE))

\* _validate_source
_validate_source(self, added, raw_source, p_loc, strict, has_volunteers, has_summary) ==
    LET fields == {"name", "link"}
                    \cup (IF has_volunteers THEN {"volunteers"} ELSE {})
                    \cup (IF has_summary THEN {"summary"} ELSE {})
        missing_fields == fields \ SourceKeys(raw_source)
        name == raw_source.doc.fields["name"][2]
        s_link == raw_source.doc.fields["link"][2]
        s_loc == p_loc \o ", source " \o name
    IN  IF missing_fields # {} THEN Validated(TRUE, added, <<>>)
        ELSE IF ~has_source(self, name)
        THEN Validated(strict, added, << <<"Unknown source", p_loc>> >>)
        ELSE IF name \in DOMAIN added
        THEN Validated(strict, added, << <<"Repeated source", p_loc>> >>)
        ELSE FixSource(self, added, raw_source, name, s_link, s_loc, strict,
                       has_volunteers, has_summary)

\* _validate_piece lines 500-507: the loop over raw_piece['sources']
RECURSIVE ValidateSources(_, _, _, _, _, _, _, _)
ValidateSources(self, added, list, p_loc, strict, has_volunteers, has_summary, warnings) ==
    IF list = <<>> THEN Validated(FALSE, added, warnings)
    ELSE LET next(r) ==
                 IF r.had_error THEN Validated(TRUE, added, warnings \o r.warnings)
                 ELSE ValidateSources(self, r.target, Tail(list), p_loc, strict,
                                      has_volunteers, has_summary,
                                      warnings \o r.warnings)
         IN  next(_validate_source(self, added, Head(list), p_loc, strict,
                                   has_volunteers, has_summary))

\* a raw piece of a data file: `missing` holds the keys among 'title',
\* 'link', 'sources' and 'notes' it does not have
RawPiece(missing, title, link, raw_sources, notes) ==
    [missing |-> missing, title |-> title, link |-> link,
     sources |-> raw_sources, notes |-> notes]

\* the entry _validate_piece adds to `fixed_pieces`
FixedPiece(title, link, fixed_sources, notes) ==
    [title |-> title, link |-> link, sources |-> fixed_sources, notes |-> notes]

\* _validate_piece lines 480-495: the warning about the piece link, if any
LinkWarning(own_link, link, p_loc) ==
    IF own_link = None
    THEN IF link # None THEN << <<"Extra piece link", p_loc>> >> ELSE <<>>
    ELSE IF link = None THEN << <<"Missing piece link", p_loc>> >>
    ELSE IF link # own_link THEN << <<"Incorrect piece link", p_loc>> >>
    ELSE <<>>

\* _validate_piece lines 508-516
MissingSources_None(piece_obj, fixed_sources) == {}

MissingSources(piece_obj, fixed_sources) ==
    {name \in all_sources(piece_obj) : name \notin DOMAIN fixed_sources}

\* _validate_piece lines 476-533, for a known title not yet in fixed_pieces
FixPiece(piece_obj, target, v_loc, raw, strict, from_piece_file, has_summary, warnings) ==
    LET title == raw.title
        p_loc == (IF v_loc # None THEN v_loc \o ", " ELSE "") \o "piece " \o title
        w1 == warnings \o LinkWarning(piece_obj.link, raw.link, p_loc)
        add(ss, nt, w3) ==
            IF ss.had_error THEN Validated(TRUE, target, ss.warnings)
            ELSE IF MissingSources(piece_obj, ss.target) # {}
            THEN Validated(TRUE, target, ss.warnings)
            ELSE IF strict /\ nt.warning THEN Validated(TRUE, target, w3)
            ELSE Validated(FALSE,
                           Put(target, title,
                               FixedPiece(title, raw.link, ss.target, nt.fixed)),
                           w3)
        notes_of(ss, nt) == add(ss, nt, ss.warnings \o Logged(nt, p_loc))
    IN  IF strict /\ w1 # warnings THEN Validated(TRUE, target, w1)
        ELSE notes_of(ValidateSources(piece_obj, EmptyMap, raw.sources, p_loc, strict,
                                      from_piece_file, has_summary, w1),
                      with_defaults(piece_obj, raw.notes, TRUE, from_piece_file))

PieceWarning_Twice(kind, title, where) ==
    << <<kind \o " " \o title, where>>, <<kind \o " " \o title, where>> >>

\* _validate_piece lines 454-475: the one warning about an unknown or a
\* repeated piece
PieceWarning(kind, title, where) == << <<kind \o " " \o title, where>> >>

\* _validate_piece
_validate_piece(known, target, v_loc, raw, strict, from_piece_file, file, has_summary) ==
    LET title == raw.title
        misnamed == from_piece_file /\ file # None /\ file # title
        w0 == IF misnamed THEN << <<"Piece name doesn't match file arg", file>> >>
              ELSE <<>>
        where == IF v_loc # None THEN v_loc ELSE ""
    IN  IF raw.missing # {} THEN Validated(TRUE, target, <<>>)
        ELSE IF misnamed /\ strict THEN Validated(TRUE, target, w0)
        ELSE IF title \notin DOMAIN known
        THEN Validated(strict, target, w0 \o PieceWarning("Unknown piece", title, where))
        ELSE IF title \in DOMAIN target
        THEN Validated(strict, target, w0 \o PieceWarning("Repeated piece", title, where))
        ELSE FixPiece(known[title], target, v_loc, raw, strict, from_piece_file,
                      has_summary, w0)

(***************************************************************************)
(* read_volunteer_data: the raw pieces of one volunteer's data file are    *)
(* validated one after the other into fixed_pieces                         *)
(***************************************************************************)
\* bound of the data file model: the number of raw pieces in the file
MaxRawPieces == 2

\* the volunteer whose file is read
Reader == "a@x"

\* a raw source of a volunteer's file: its keys are 'name', 'link' (unless
\* link is None here), the headers, 'comments', 'bars' and the extra keys
VolunteerSource(name, link, extra) ==
    RawSource(Doc([k \in {"name"} \cup (IF link = None THEN {} ELSE {"link"})
                         \cup Headers \cup {"comments"} \cup extra |->
                      IF k = "name" THEN Str(name)
                      ELSE IF k = "link" THEN Str(link) ELSE Str("x")],
                  TRUE, [b \in BarLabels(1) |-> Str("x")]),
              Absent, Absent)
sFoo == VolunteerSource("Foo", "u", {})
sBar == VolunteerSource("Bar", "u", {})
\* a wrong link and an unknown field
sFooLW == VolunteerSource("Foo", "v", {"junk"})
sNoLink == VolunteerSource("Foo", None, {})
RawSourceLists ==
    {<<sFoo, sBar>>, <<sFoo>>, <<sBar>>, <<sFoo, sFoo>>, <<sFooLW, sBar>>,
     <<sNoLink>>, <<>>}
\* the 'notes' of a raw piece: complete, or without 'tempo'
RawNotes ==
    {Doc([k \in Headers |-> IF k = "title" THEN Str("") ELSE Str("x")],
         TRUE, [b \in BarLabels(1) |-> Str("x")]),
     Doc([k \in {"title"} |-> Str("x")], TRUE, [b \in BarLabels(1) |-> Str("")])}
RawPieces ==
    {RawPiece({}, t, l, s, n) :
        t \in KnownTitles, l \in PieceLinks, s \in RawSourceLists, n \in RawNotes}
    \cup {RawPiece({}, "Ghost", None, s, n) :
             s \in {<<sFoo, sBar>>, <<sFooLW, sBar>>}, n \in RawNotes}
    \cup {RawPiece({"notes"}, "K1", "p", <<sFoo, sBar>>, Doc(<<>>, FALSE, <<>>))}

ValInputs ==
    /\ fixed_pieces = EmptyMap /\ raw_piece = <<>> /\ lenient = <<>> /\ strictr = <<>>
    /\ titles_read = {} /\ nread = 0 /\ vpc = "loop"

\* read_volunteer_data lines 589-596: one turn of the loop over the raw
\* pieces of the file, with strict=False; strictr is what the same call
\* returns and logs with strict=True
ValidatePiece ==
    /\ vpc = "loop" /\ nread < MaxRawPieces
    /\ \E raw \in RawPieces :
          LET v_loc == "volunteer " \o Reader
              validate(strict) ==
                  _validate_piece(KnownData, fixed_pieces, v_loc, raw,
                                  strict, FALSE, None, FALSE)
              read(r, r_strict) ==
                  /\ raw_piece' = raw
                  /\ lenient' = r
                  /\ strictr' = r_strict
                  /\ fixed_pieces' = r.target
                  /\ titles_read' = titles_read \cup {raw.title}
                  /\ vpc' = IF r.had_error THEN "error" ELSE "loop"
          IN  read(validate(FALSE), validate(TRUE))
    /\ nread' = nread + 1
    /\ UNCHANGED extVars
    /\ UNCHANGED notVal

\* read_volunteer_data lines 597-599: the file is read, volunteers[email] =
\* fixed_pieces is returned and piece_summary hands it to _extract_pieces
ReturnData ==
    /\ vpc = "loop"
    /\ vpc' = "read"
    /\ volunteers_data' = Put(EmptyMap, Reader, fixed_pieces)
    /\ to_extract' = KnownTitles
    /\ xpc' = "input"
    /\ UNCHANGED <<fixed_pieces, raw_piece, lenient, strictr, titles_read, nread,
                   extracted, extracted_strict>>
    /\ UNCHANGED notVal

(***************************************************************************)
(* PieceData.add_volunteer (_piece_data.py) and _extract_pieces            *)
(* (piece_summary.py)                                                      *)
(***************************************************************************)
\* SourceData.add_volunteer: data without its 'name' and 'link'
SourceData_add_volunteer(self, email, data) ==
    [self EXCEPT !.volunteers = Put(@, email, data.values[1])]

\* PieceData.add_volunteer lines 295-307: the loop over data['sources']
RECURSIVE AddSources(_, _, _, _, _, _, _)
AddSources(own, email, data_sources, names, strict, p_loc, warnings) ==
    IF names = {} THEN [success |-> TRUE, sources |-> own, warnings |-> warnings]
    ELSE LET name == CHOOSE n \in names : TRUE
         IN  IF name \notin DOMAIN own
             THEN LET logged == warnings \o << <<"Unknown source", p_loc>> >>
                  IN  IF strict
                      THEN [success |-> FALSE, sources |-> own, warnings |-> logged]
                      ELSE AddSources(own, email, data_sources, names \ {name},
                                      strict, p_loc, logged)
             ELSE AddSources([own EXCEPT ![name] =
                                 SourceData_add_volunteer(@, email, data_sources[name])],
                             email, data_sources, names \ {name}, strict, p_loc,
                             warnings)

AddNote_Always(entry_dict, email, val) == Dict(Put(entry_dict[2], email, val[2]))

\* lines 312-321: self._notes[key][email] = val unless val == ''
AddNote(entry_dict, email, val) ==
    IF val = Str("") THEN entry_dict ELSE Dict(Put(entry_dict[2], email, val[2]))

\* lines 309-321
AddNotes(own, email, notes) ==
    Doc([k \in DOMAIN own.fields |->
            IF k \in DOMAIN notes.fields THEN AddNote(own.fields[k], email, notes.fields[k])
            ELSE own.fields[k]],
        TRUE,
        [b \in DOMAIN own.bars |->
            IF b \in DOMAIN notes.bars THEN AddNote(own.bars[b], email, notes.bars[b])
            ELSE own.bars[b]])

\* PieceData.add_volunteer
PieceData_add_volunteer(self, email, data, strict) ==
    LET p_loc == "volunteer " \o email \o ", piece " \o self.name
        w1 == LinkWarning(self.link, data.link, p_loc)
        ss == AddSources(self.sources, email, data.sources, DOMAIN data.sources,
                         strict, p_loc, w1)
    IN  IF strict /\ w1 # <<>>
        THEN [success |-> FALSE, piece |-> self, warnings |-> w1]
        ELSE IF ~ss.success
        THEN [success |-> FALSE, piece |-> [self EXCEPT !.sources = ss.sources],
              warnings |-> ss.warnings]
        ELSE [success |-> TRUE,
              piece |-> [self EXCEPT !.sources = ss.sources,
                                     !.notes = AddNotes(@, email, data.notes)],
              warnings |-> ss.warnings]

\* SourceData.to_json and PieceData.to_json (the list of the sources is
\* given as a map from their names)
SourceData_to_json(self) ==
    [name |-> self.name, link |-> self.link, volunteers |-> self.volunteers]
PieceData_to_json(self) ==
    [title |-> self.name, link |-> self.link,
     sources |-> [n \in DOMAIN self.sources |-> SourceData_to_json(self.sources[n])],
     notes |-> self.notes]

\* the (email, title) pairs of volunteers_data in the order the loops of
\* _extract_pieces visit them
RECURSIVE Submissions(_, _)
Submissions(vdata, emails) ==
    IF emails = {} THEN <<>>
    ELSE LET email == CHOOSE e \in emails : TRUE
             RECURSIVE Of(_)
             Of(titles) == IF titles = {} THEN <<>>
                           ELSE LET t == CHOOSE x \in titles : TRUE
                                IN  << <<email, t>> >> \o Of(titles \ {t})
         IN  Of(DOMAIN vdata[email]) \o Submissions(vdata, emails \ {email})

\* _extract_pieces lines 51-60
RECURSIVE AddVolunteers(_, _, _, _)
AddVolunteers(acc, pending, vdata, strict) ==
    IF pending = <<>> \/ acc.failed THEN acc
    ELSE LET email == Head(pending)[1]
             title == Head(pending)[2]
         IN  IF title \notin DOMAIN acc.pieces
             THEN AddVolunteers(acc, Tail(pending), vdata, strict)
             ELSE LET r == PieceData_add_volunteer(acc.pieces[title], email,
                                                   vdata[email][title], strict)
                  IN  AddVolunteers([pieces |-> [acc.pieces EXCEPT ![title] = r.piece],
                                     seen |-> acc.seen \cup {title},
                                     warnings |-> acc.warnings \o r.warnings,
                                     failed |-> ~r.success],
                                    Tail(pending), vdata, strict)

Seen_All(known, seen) == DOMAIN known

\* lines 62-68: only the pieces actually seen
Seen(known, seen) == {title \in DOMAIN known : title \in seen}

Extracted(success, data, warnings) ==
    [success |-> success, data |-> data, warnings |-> warnings]

\* _extract_pieces
_extract_pieces(known, vdata, strict) ==
    LET acc == AddVolunteers([pieces |-> known, seen |-> {}, warnings |-> <<>>,
                              failed |-> FALSE],
                             Submissions(vdata, DOMAIN vdata), vdata, strict)
        data == [title \in Seen(known, acc.seen) |-> PieceData_to_json(acc.pieces[title])]
    IN  IF acc.failed THEN Extracted(FALSE, None, acc.warnings)
        ELSE IF DOMAIN data = {} THEN Extracted(FALSE, None, acc.warnings)
        ELSE Extracted(TRUE, data, acc.warnings)

\* the validated pieces read_volunteer_data can return for a title
ValidatedPieces(title) ==
    {v.target[title] :
        v \in {r \in {_validate_piece(KnownData, EmptyMap, "volunteer", raw, FALSE,
                                      FALSE, None, FALSE) :
                          raw \in {x \in RawPieces : x.title = title}} :
                  ~r.had_error}}
\* the validated files of one volunteer
VolunteerFiles ==
    UNION {{f \in [T -> UNION {ValidatedPieces(t) : t \in T}] :
               \A t \in T : f[t].title = t} : T \in SUBSET KnownTitles}

ExtInputs ==
    /\ volunteers_data \in UNION {[E -> VolunteerFiles] : E \in SUBSET Emails}
    /\ to_extract \in SUBSET KnownTitles \ {{}}
    /\ extracted = <<>> /\ extracted_strict = <<>> /\ xpc = "input"

\* piece_summary: _extract_pieces(pieces, volunteers_data, strict), with
\* strict=False and, on the same arguments, with strict=True
ExtractPieces ==
    /\ xpc = "input"
    /\ LET known == [t \in to_extract |-> KnownData[t]]
       IN  /\ extracted' = _extract_pieces(known, volunteers_data, FALSE)
           /\ extracted_strict' = _extract_pieces(known, volunteers_data, TRUE)
    /\ xpc' = "done"
    /\ UNCHANGED <<volunteers_data, to_extract>>
    /\ UNCHANGED valVars
    /\ UNCHANGED notVal

(***************************************************************************)
(* Claims about the validation of volunteer data (checked under            *)
(* SpecValidate) and about the extraction (checked under SpecExtract)      *)
(***************************************************************************)
\* the declared sources of the piece a raw piece names, and whether the raw
\* piece lacks one of them
Declared(raw) == all_sources(KnownData[raw.title])
Named(raw) ==
    {raw.sources[i].doc.fields["name"][2] : i \in 1..Len(raw.sources)}
Lacking(raw) == Declared(raw) \ Named(raw) # {}
\* one turn of the loop on a raw piece of a known piece with all its keys
ReadKnown ==
    /\ nread' = nread + 1
    /\ raw_piece'.missing = {}
    /\ raw_piece'.title \in KnownTitles

\* C13 (as stated): in strict mode the operation does not stop at the first
\* warning: for a raw piece that validates without a fatal error, the
\* warnings reported with strict=True are those reported with strict=False,
\* and failure is returned after them.
C13_WarningsAllReported ==
    (nread > 0 /\ ~lenient.had_error) =>
        /\ strictr.warnings = lenient.warnings
        /\ strictr.had_error = (lenient.warnings # <<>>)

\* C14: a raw piece whose title is not a known piece is (non-strict) skipped
\* with exactly one warning and without an error, whatever its sources and
\* notes hold; it changes nothing in the validated data, the title is in no
\* validated data and in no extraction output, and every known piece read
\* before or after it is validated and extracted.
C14_UnknownPieceSkip ==
    /\ DOMAIN fixed_pieces \subseteq KnownTitles
    /\ (nread > 0 /\ raw_piece.missing = {} /\ raw_piece.title \notin KnownTitles) =>
          /\ ~lenient.had_error /\ vpc # "error"
          /\ lenient.target = fixed_pieces
          /\ lenient.warnings =
                << <<"Unknown piece " \o raw_piece.title, "volunteer " \o Reader>> >>
    /\ vpc # "error" => DOMAIN fixed_pieces = titles_read \cap KnownTitles
    /\ xpc # "idle" =>
          \A e \in DOMAIN volunteers_data :
              DOMAIN volunteers_data[e] = titles_read \cap KnownTitles
    /\ (xpc = "done" /\ extracted.success) =>
          DOMAIN extracted.data = titles_read \cap KnownTitles
    /\ xpc = "done" => (extracted.success <=> titles_read \cap KnownTitles # {})

C14_Witness ==
    /\ xpc = "done" /\ extracted.success /\ nread = 2
    /\ "Ghost" \in titles_read
    /\ raw_piece.title = "K1"
    /\ DOMAIN extracted.data = {"K1"}

\* C17 (as stated): a raw piece of a known piece that lacks a declared
\* source makes _validate_piece return an error with strict=False and with
\* strict=True.
C17_MissingSourceAlwaysError ==
    [][(ReadKnown /\ Lacking(raw_piece')) =>
           (lenient'.had_error /\ strictr'.had_error)]_vars

\* C17 (amended): a raw piece of a known piece that lacks a declared source
\* never adds anything to the target, and _validate_piece returns an error
\* for it with strict=False and with strict=True unless the title is
\* already in the target, when the piece is skipped as repeated (an error
\* only with strict=True); a piece that is added has exactly the declared
\* source names as the keys of its 'sources'.
C17_MissingSourceFatal ==
    [][ReadKnown =>
          LET t == raw_piece'.title
          IN  /\ Lacking(raw_piece') =>
                    /\ lenient'.target = fixed_pieces
                    /\ strictr'.target = fixed_pieces
                    /\ strictr'.had_error
                    /\ t \notin DOMAIN fixed_pieces => lenient'.had_error
                    /\ t \in DOMAIN fixed_pieces =>
                          /\ ~lenient'.had_error
                          /\ lenient'.warnings =
                                PieceWarning("Repeated piece", t, "volunteer " \o Reader)
              /\ \A r \in {lenient', strictr'} :
                    t \in DOMAIN r.target \ DOMAIN fixed_pieces =>
                        DOMAIN r.target[t].sources = Declared(raw_piece')]_vars

C17_Witness ==
    /\ nread = 2 /\ vpc = "error"
    /\ raw_piece.title = "K2" /\ raw_piece.missing = {}
    /\ Named(raw_piece) = {"Bar"}
    /\ DOMAIN fixed_pieces = {"K1"}
    /\ lenient.warnings # <<>>

\* the volunteers that submitted a piece
Submitted(title) ==
    {e \in DOMAIN volunteers_data : title \in DOMAIN volunteers_data[e]}

\* C15: the output of _extract_pieces holds exactly the pieces being
\* extracted that some volunteer submitted (extraction fails when there is
\* none), and every source of such a piece has the data of a volunteer who
\* submitted the piece.
C15_SeenTracking ==
    xpc = "done" =>
        /\ extracted.success <=> \E t \in to_extract : Submitted(t) # {}
        /\ extracted.success =>
              /\ DOMAIN extracted.data = {t \in to_extract : Submitted(t) # {}}
              /\ \A t \in DOMAIN extracted.data :
                    \A n \in DOMAIN extracted.data[t].sources :
                        \E e \in Submitted(t) :
                            /\ n \in DOMAIN volunteers_data[e][t].sources
                            /\ e \in DOMAIN extracted.data[t].sources[n].volunteers

C15_Witness ==
    /\ xpc = "done" /\ extracted.success
    /\ to_extract = KnownTitles
    /\ DOMAIN volunteers_data = Emails
    /\ Submitted("K1") = {"b@x"} /\ Submitted("K2") = {}
    /\ DOMAIN extracted.data = {"K1"}

\* what a volunteer's notes give for the entry of a field or bar
NoteOf(e, title, noted, k) ==
    IF noted = "bars" THEN volunteers_data[e][title].notes.bars[k]
    ELSE volunteers_data[e][title].notes.fields[k]
\* the aggregated entry holds e iff e submitted a non-empty value, and then
\* holds that value
Aggregated(agg_entry, title, noted, k) ==
    \A e \in Emails :
        /\ e \in DOMAIN agg_entry[2] <=>
              (e \in Submitted(title) /\ NoteOf(e, title, noted, k) # Str(""))
        /\ e \in DOMAIN agg_entry[2] => agg_entry[2][e] = NoteOf(e, title, noted, k)[2]

\* C16: after the add_volunteer calls of an extraction (each email once per
\* piece), for every header and every bar of an extracted piece the
\* aggregated notes entry has key email iff that volunteer submitted the
\* piece with a non-empty notes value there, and the value stored is the
\* volunteer's; each source's volunteers map has exactly the emails that
\* submitted the source, each with the data submitted.
C16_AggregationByContributor ==
    (xpc = "done" /\ extracted.success) =>
        \A t \in DOMAIN extracted.data :
            LET agg == extracted.data[t].notes
            IN  /\ DOMAIN agg.fields = Headers
                /\ DOMAIN agg.bars = BarLabels(KnownData[t].bar_count)
                /\ \A k \in DOMAIN agg.fields : Aggregated(agg.fields[k], t, "fields", k)
                /\ \A b \in DOMAIN agg.bars : Aggregated(agg.bars[b], t, "bars", b)
                /\ \A n \in DOMAIN extracted.data[t].sources :
                      LET stored == extracted.data[t].sources[n].volunteers
                      IN  /\ DOMAIN stored =
                                {e \in Submitted(t) :
                                    n \in DOMAIN volunteers_data[e][t].sources}
                          /\ \A e \in DOMAIN stored :
                                stored[e] = volunteers_data[e][t].sources[n].values[1]

C16_Witness ==
    /\ xpc = "done" /\ extracted.success
    /\ Submitted("K1") = Emails
    /\ "K1" \in DOMAIN extracted.data
    /\ DOMAIN extracted.data["K1"].notes.fields["title"][2] = {"a@x"}
    /\ DOMAIN extracted.data["K1"].notes.fields["tempo"][2] = {"b@x"}
    /\ DOMAIN extracted.data["K1"].sources["Bar"].volunteers = Emails

(***************************************************************************)
(* The summary cycle: Piece.create_master_sheet renders summary[title]     *)
(* into a sheet, Piece.export_master_sheet reads the sheet, read_summary   *)
(* validates what was read                                                 *)
(***************************************************************************)
MaxCycles == 2

\* template['commentFields']['summary']
SummaryLabel == "SUMMARY"

\* _hyperlink on the cells of the model (the escaping of the text is not
\* modelled here)
_hyperlink(text, link) == IF link = None THEN Text(text) ELSE Formula(link, text)
Source_hyperlink(source) == _hyperlink(source.name, source.link)

\* create_master_sheet lines 492-505: the column add_column appends
add_column(email, volunteer, n) ==
    [row1 |-> Blank, row2 |-> email,
     cells |-> SheetColumn([header \in Headers |-> volunteer.fields[header]],
                           [i \in 1..n |-> volunteer.bars[str(i)]],
                           volunteer.fields["comments"])]

\* lines 510-512: a column per volunteer
RECURSIVE VolunteerColumns(_, _, _)
VolunteerColumns(source_volunteers, emails, n) ==
    IF emails = {} THEN <<>>
    ELSE LET email == CHOOSE e \in emails : TRUE
         IN  <<add_column(email, source_volunteers[email], n)>>
                 \o VolunteerColumns(source_volunteers, emails \ {email}, n)

SourceColumns_SummaryFirst(source, source_data, n) ==
    LET columns == <<add_column(SummaryLabel, source_data.summary[1], n)>>
                       \o VolunteerColumns(source_data.volunteers[1],
                                           DOMAIN source_data.volunteers[1], n)
    IN  [columns EXCEPT ![1].row1 = Source_hyperlink(source)]

\* lines 489-521: the columns of one source, the summary column last and the
\* source's hyperlink in row 1 of its first column
SourceColumns(source, source_data, n) ==
    LET columns == VolunteerColumns(source_data.volunteers[1],
                                    DOMAIN source_data.volunteers[1], n)
                       \o <<add_column(SummaryLabel, source_data.summary[1], n)>>
    IN  [columns EXCEPT ![1].row1 = Source_hyperlink(source)]

\* lines 484-521: the loop over self._sources
RECURSIVE PieceColumns(_, _, _)
PieceColumns(list, sources_data, n) ==
    IF list = <<>> THEN <<>>
    ELSE SourceColumns(Head(list), sources_data[Head(list).name], n)
             \o PieceColumns(Tail(list), sources_data, n)

\* the columns 1..notes_col-1 of the sheet create_master_sheet makes
create_master_sheet(self, piece_data) ==
    PieceColumns(Piece_sources(self), piece_data.sources, final_bar_count(self))

\* _export_helper lines 1091-1093 on the title cell create_master_sheet wrote
ExportedTitle(self) ==
    LET cell == _hyperlink(self.name, self.link)
        parsed == _parse_hyperlink(cell)
    IN  [link |-> parsed[1],
         name |-> IF parsed[2] = None THEN cell[2] ELSE parsed[2]]

\* the columns a validated source of the summary file can hold ...
SummaryColumns(n) ==
    {Doc([k \in Headers \cup {"comments"} |-> Str(t)], TRUE,
         [b \in BarLabels(n) |-> Str(t)]) : t \in {"", "x"}}
\* ... and the validated sources of the summary file
SummarySources(source, n) ==
    {FixedSource(source.name, source.link, Absent, Present(v), Present(s)) :
        v \in UNION {[E -> SummaryColumns(n)] : E \in SUBSET (Emails \cup {SummaryLabel})},
        s \in SummaryColumns(n)}
\* summary[title] as read_summary returns it for a known piece
SummaryDocs(self) ==
    LET n == final_bar_count(self)
        names == DOMAIN self.sources
    IN  {FixedPiece(self.name, self.link, f, MakeDefault(n, TRUE)) :
            f \in {g \in [names -> UNION {SummarySources(self.sources[x], n) : x \in names}] :
                      \A x \in names : g[x].name = x}}

RotIdle == rdoc = <<>> /\ rdoc0 = <<>> /\ cycle = 0

RotInputs ==
    /\ rdoc \in UNION {SummaryDocs(KnownPieces[t]) : t \in KnownTitles}
    /\ rdoc0 = rdoc /\ cycle = 0
    /\ grid = <<>> /\ col = 0 /\ sources = <<>> /\ has_curr = FALSE /\ epc = "ready"

\* import_summary: create_master_sheet(spreadsheet, summary[title])
CreateMasterSheet ==
    /\ epc = "ready"
    /\ grid' = create_master_sheet(KnownPieces[rdoc.title], rdoc)
    /\ col' = 1 /\ sources' = <<>> /\ has_curr' = FALSE /\ epc' = "loop"
    /\ UNCHANGED rotVars
    /\ UNCHANGED notRot

\* the exported source as a raw source of the summary file
ExportedSource(source) ==
    RawSource(Doc([k \in {"name", "link"} |->
                      IF k = "name" THEN Str(source.name) ELSE Str(source.link)],
                  FALSE, <<>>),
              Present(source.volunteers), source.summary)

\* export_master writes the exported piece to the summary file and
\* read_summary validates it: _validate_piece(pieces, summary, None,
\* raw_piece, strict, index=i, from_piece_file=True, has_summary=True)
ReadSummary ==
    /\ epc = "done" /\ cycle < MaxCycles
    /\ LET head == ExportedTitle(KnownPieces[rdoc.title])
           raw == RawPiece({}, head.name, head.link,
                           [i \in 1..Len(sources) |-> ExportedSource(sources[i])],
                           rdoc.notes)
           read(r) ==
               IF r.had_error \/ head.name \notin DOMAIN r.target
               THEN epc' = "error" /\ UNCHANGED <<rdoc, cycle>>
               ELSE /\ rdoc' = r.target[head.name]
                    /\ cycle' = cycle + 1
                    /\ epc' = "ready"
       IN  read(_validate_piece(KnownData, EmptyMap, None, raw, FALSE, TRUE, None, TRUE))
    /\ UNCHANGED <<rdoc0, grid, col, sources, has_curr>>
    /\ UNCHANGED notRot

MaxEntries == 2

StrictAbort_Never(strict, warning) == FALSE

\* `if strict and warning: fail_on_warning(); return ERROR_RETURN`
StrictAbort(strict, warning) == strict /\ warning

\* the outcome of a constructor: the object, or the exception raised
Raised(kind, args) == [kind |-> kind, args |-> args, value |-> <<>>]
Returned(value) == [kind |-> "ok", args |-> <<>>, value |-> <<value>>]

\* ---- read_template ----
\* the default template (the levels and keys read_template looks at; a
\* title is the list of its parts, a boolean is "true" or "false")
TemplateDefaults ==
    [masterSpreadsheet |-> [publicAccess |-> None],
     volunteerSpreadsheet |-> [title |-> <<"{email}">>, publicAccess |-> None,
                               shareWithVolunteer |-> "true", resize |-> "true"],
     metaDataFields |-> [title |-> "Title", tempo |-> "Tempo"],
     commentFields |-> [notes |-> "Notes", comments |-> "Comments",
                        summary |-> SummaryLabel],
     values |-> [defaultBarCount |-> DefaultBarCount, commentsRowHeight |-> 75]]
PUBLIC_ACCESS_OPTIONS == {None, "view", "edit"}

\* lines 76-88: the values of the file over the defaults ...
LevelValues(raw, defaults) ==
    [level \in DOMAIN defaults |->
        [k \in DOMAIN defaults[level] |->
            IF level \in DOMAIN raw /\ k \in DOMAIN raw[level]
            THEN raw[level][k] ELSE defaults[level][k]]]
\* ... and the warnings about unknown levels and keys
LevelWarnings(raw, defaults) ==
    LET levels == DOMAIN raw \ {"validation"}
    IN  {"unknown key " \o level : level \in levels \ DOMAIN defaults}
        \cup UNION {{"unknown key " \o level \o "." \o k :
                        k \in DOMAIN raw[level] \ DOMAIN defaults[level]} :
                    level \in levels \cap DOMAIN defaults}

ValidationWarning_None(metadata, k, validation) == ""

\* lines 91-117: what is wrong with one entry of 'validation' ("" if nothing)
ValidationWarning(metadata, k, validation) ==
    IF k \notin DOMAIN metadata THEN "unknown key"
    ELSE IF validation.type = Absent THEN "no type"
    ELSE IF validation.type[1] = "checkbox" THEN ""
    ELSE IF validation.type[1] = "dropdown"
    THEN IF validation.values = Absent \/ Len(validation.values[1]) = 0
         THEN "no values for dropdown" ELSE ""
    ELSE "unknown type"
FixedValidation(metadata, raw_validation) ==
    [k \in {x \in DOMAIN raw_validation :
               ValidationWarning(metadata, x, raw_validation[x]) = ""} |->
        IF raw_validation[k].type[1] = "checkbox"
        THEN [type |-> Present("checkbox"), values |-> Absent]
        ELSE [type |-> Present("dropdown"), values |-> raw_validation[k].values]]

\* title.count('{email}')
CountEmail(title) == Cardinality({i \in 1..Len(title) : title[i] = "{email}"})

Template(success, settings, warnings, errors) ==
    [success |-> success, values |-> settings, warnings |-> warnings,
     errors |-> errors]

\* read_template
read_template(raw, strict) ==
    LET defaults == TemplateDefaults
        read == LevelValues(raw, defaults)
        raw_validation == IF "validation" \in DOMAIN raw THEN raw["validation"]
                          ELSE EmptyMap
        ss == "volunteerSpreadsheet"
        bad_access == {s \in {"masterSpreadsheet", ss} :
                          read[s]["publicAccess"] \notin PUBLIC_ACCESS_OPTIONS}
        bad_bools == {k \in {"shareWithVolunteer", "resize"} :
                         read[ss][k] \notin {"true", "false"}}
        warnings ==
            LevelWarnings(raw, defaults)
            \cup {"validation." \o k \o ": "
                      \o ValidationWarning(read["metaDataFields"], k, raw_validation[k]) :
                     k \in {x \in DOMAIN raw_validation :
                               ValidationWarning(read["metaDataFields"], x,
                                                 raw_validation[x]) # ""}}
            \cup {s \o ".publicAccess: invalid value" : s \in bad_access}
            \cup {ss \o "." \o k \o ": invalid value" : k \in bad_bools}
        errors ==
            (IF CountEmail(read[ss]["title"]) > 1
             THEN {ss \o ".title: can only contain {email} at most once"} ELSE {})
            \cup (IF read["values"]["defaultBarCount"] <= 0
                  THEN {"values.defaultBarCount: must be positive"} ELSE {})
            \cup (IF read["values"]["commentsRowHeight"] < 21
                  THEN {"values.commentsRowHeight: must be at least 21"} ELSE {})
        fixed ==
            [level \in DOMAIN read \cup {"validation"} |->
                IF level = "validation"
                THEN FixedValidation(read["metaDataFields"], raw_validation)
                ELSE [k \in DOMAIN read[level] |->
                         IF \/ k = "publicAccess" /\ level \in bad_access
                            \/ level = ss /\ k \in bad_bools
                         THEN defaults[level][k] ELSE read[level][k]]]
    IN  IF errors # {} THEN Template(FALSE, None, warnings, errors)
        ELSE IF StrictAbort(strict, warnings # {})
        THEN Template(FALSE, None, warnings, errors)
        ELSE Template(TRUE, fixed, warnings, errors)

\* ---- the template definitions files of the model ----
ValidationEntries ==
    [type : {Absent, Present("checkbox"), Present("dropdown"), Present("radio")},
     values : {Absent, Present(<<>>), Present(<<"a">>)}]
Validations ==
    {EmptyMap} \cup {Put(EmptyMap, k, e) : k \in {"title", "junk"}, e \in ValidationEntries}
RawTemplate(junk_level, junk_key, validation, access, title, share, bars, height) ==
    LET known == [masterSpreadsheet |-> [publicAccess |-> access],
                  volunteerSpreadsheet |-> [title |-> title, shareWithVolunteer |-> share],
                  values |-> IF junk_key
                             THEN [defaultBarCount |-> bars, commentsRowHeight |-> height,
                                   junk |-> 0]
                             ELSE [defaultBarCount |-> bars, commentsRowHeight |-> height],
                  validation |-> validation]
    IN  IF junk_level
        THEN [level \in DOMAIN known \cup {"junk"} |->
                 IF level = "junk" THEN EmptyMap ELSE known[level]]
        ELSE known
RawTemplates ==
    {RawTemplate(jl, jk, v, a, t, s, b, h) :
        jl \in BOOLEAN, jk \in BOOLEAN, v \in Validations, a \in {None, "edit", "all"},
        t \in {<<"sheet">>, <<"{email}", "-", "{email}">>}, s \in {"false", "yes"},
        b \in {0, 1}, h \in {20, 21}}

TplInputs ==
    /\ raw_values \in RawTemplates
    /\ template = <<>> /\ template_strict = <<>> /\ tpc = "input"

\* read_template(path, strict) with strict=False and with strict=True
ReadTemplate ==
    /\ tpc = "input"
    /\ template' = read_template(raw_values, FALSE)
    /\ template_strict' = read_template(raw_values, TRUE)
    /\ tpc' = "done"
    /\ UNCHANGED raw_values
    /\ UNCHANGED notTpl

\* ---- read_piece_definitions ----
\* Source.__init__ on a JSON dict that may lack 'name' or 'link'
Source_init(kwargs) ==
    IF "name" \in kwargs.missing
    THEN Raised("ValueError", <<"key \"name\" not found">>)
    ELSE IF "link" \in kwargs.missing
    THEN Raised("ValueError", <<"key \"link\" not found">>)
    ELSE IF kwargs.barCount # NoInt /\ kwargs.barCount[1] <= 0
    THEN Raised("ValueError", <<"bar count must be positive">>)
    ELSE Returned(Source(kwargs))

\* Piece.__init__ line 185, in the handler of the ValueError ex of source i:
\* ex.args = (f'source {i}: ' + ex.args[0],) + ex.args[1]; raise
\* (ex.args[1] of a one-element tuple raises IndexError)
Reraise(i, ex) ==
    IF Len(ex.args) < 2
    THEN Raised("IndexError", <<"tuple index out of range">>)
    ELSE Raised(ex.kind, <<"source " \o str(i) \o ": " \o ex.args[1]>> \o ex.args[2])

\* Piece.__init__ lines 179-187: the loop over kwargs['sources']
RECURSIVE Sources_init(_, _)
Sources_init(list, i) ==
    IF i > Len(list) THEN Returned(list)
    ELSE LET r == Source_init(list[i])
         IN  IF r.kind # "ok" THEN Reraise(i - 1, r) ELSE Sources_init(list, i + 1)

\* Piece.__init__ on a JSON dict that may lack keys and hold invalid sources
Piece_init(kwargs) ==
    IF "title" \in kwargs.missing
    THEN Raised("ValueError", <<"key \"title\" not found">>)
    ELSE IF "sources" \in kwargs.missing
    THEN Raised("ValueError", <<"key \"sources\" not found">>)
    ELSE LET built == Sources_init(kwargs.sources, 1)
         IN  IF built.kind # "ok" THEN built ELSE Returned(Piece(kwargs))

\* the sources and the entries of the piece definitions files of the model
DefSources ==
    [missing : {{}}, name : Names, link : {"u"}, barCount : {NoInt},
     supplemental : BOOLEAN]
    \cup {[missing |-> {"name"}, name |-> "", link |-> "u", barCount |-> NoInt,
           supplemental |-> FALSE],
          [missing |-> {"link"}, name |-> "Foo", link |-> "", barCount |-> NoInt,
           supplemental |-> FALSE],
          [missing |-> {}, name |-> "Foo", link |-> "u", barCount |-> Some(0),
           supplemental |-> FALSE]}
DefEntries ==
    [missing : {{}}, title : KnownTitles, link : {None}, barCount : {NoInt},
     sources : UNION {[1..k -> DefSources] : k \in 0..2}]
    \cup {[missing |-> {"title"}, title |-> "", link |-> None, barCount |-> NoInt,
           sources |-> <<>>]}

Definitions(success, read, no_sources, only_supplemental, message) ==
    [success |-> success, pieces |-> read, no_sources |-> no_sources,
     only_supplemental |-> only_supplemental, message |-> message]

DefInputs ==
    /\ pieces = EmptyMap /\ given = <<>> /\ entry = <<>> /\ defs = <<>> /\ dpc = "loop"

\* _piece_definitions lines 197-209: one turn of the loop over raw_pieces
ReadPiece ==
    /\ dpc = "loop" /\ Len(given) < MaxEntries
    /\ \E args \in DefEntries :
          LET r == Piece_init(args)
              i == Len(given)
          IN  /\ given' = Append(given, args)
              /\ entry' = r
              /\ IF r.kind = "ValueError"
                 THEN /\ defs' = Definitions(FALSE, None, {}, {},
                                             "piece " \o str(i) \o ": " \o r.args[1])
                      /\ dpc' = "failed"
                      /\ UNCHANGED pieces
                 ELSE IF r.kind # "ok"
                 THEN dpc' = "raised" /\ UNCHANGED <<pieces, defs>>
                 ELSE LET new == r.value[1]
                      IN  /\ pieces' = IF new.name \in DOMAIN pieces
                                       THEN [pieces EXCEPT ![new.name] =
                                                Piece_combine(@, new)]
                                       ELSE Put(pieces, new.name, new)
                          /\ UNCHANGED <<defs, dpc>>
    /\ UNCHANGED notDef

\* _piece_definitions lines 194-195 and 211-228, read_piece_definitions
\* lines 261-275
FinishPieces ==
    /\ dpc = "loop"
    /\ LET only_supplemental == {t \in DOMAIN pieces : pieces[t].only_supplemental}
           no_sources == {t \in DOMAIN pieces \ only_supplemental :
                             DOMAIN pieces[t].sources = {}}
           filtered == [t \in DOMAIN pieces \ (only_supplemental \cup no_sources) |->
                           pieces[t]]
       IN  defs' = IF Len(given) = 0
                   THEN Definitions(FALSE, None, {}, {}, "no pieces found")
                   ELSE IF no_sources # {}
                   THEN Definitions(FALSE, None, no_sources, only_supplemental, "")
                   ELSE Definitions(TRUE, filtered, no_sources, only_supplemental, "")
    /\ dpc' = IF defs'.success THEN "done" ELSE "failed"
    /\ UNCHANGED <<pieces, given, entry>>
    /\ UNCHANGED notDef

\* ---- read_volunteer_definitions ----
KnownOf_All(list, known, acc) == acc \o list

\* Volunteer.__init__ lines 31-40: the loop over kwargs['pieces']
RECURSIVE KnownOf(_, _, _)
KnownOf(list, known, acc) ==
    IF list = <<>> THEN acc
    ELSE LET piece_name == Head(list)
         IN  IF \E i \in 1..Len(acc) : acc[i] = piece_name
             THEN KnownOf(Tail(list), known, acc)
             ELSE IF piece_name \in known
             THEN KnownOf(Tail(list), known, Append(acc, piece_name))
             ELSE KnownOf(Tail(list), known, acc)
RECURSIVE UnknownOf(_, _)
UnknownOf(list, known) ==
    IF list = <<>> THEN <<>>
    ELSE (IF Head(list) \in known THEN <<>> ELSE <<Head(list)>>)
             \o UnknownOf(Tail(list), known)

\* Volunteer.__init__
Volunteer(kwargs, known) ==
    IF "email" \in kwargs.missing
    THEN Raised("ValueError", <<"key \"email\" not found">>)
    ELSE IF "pieces" \in kwargs.missing
    THEN Raised("ValueError", <<"key \"pieces\" not found">>)
    ELSE Returned([email |-> kwargs.email,
                   pieces |-> KnownOf(kwargs.pieces, known, <<>>),
                   unknown |-> UnknownOf(kwargs.pieces, known)])

Volunteer_combine_Replace(self, other) == [self EXCEPT !.pieces = other.pieces]

\* Volunteer.combine
Volunteer_combine(self, other) ==
    [self EXCEPT !.pieces = KnownOf(other.pieces,
                                    {other.pieces[i] : i \in 1..Len(other.pieces)}, @)]

VolEntries ==
    [missing : {{}}, email : Emails,
     pieces : UNION {[1..k -> KnownTitles \cup {"Ghost"}] : k \in 0..2}]
    \cup {[missing |-> {"pieces"}, email |-> "a@x", pieces |-> <<>>]}

Volunteers(success, read) == [success |-> success, volunteers |-> read]

VolInputs ==
    /\ volunteers = EmptyMap /\ unknown_pieces = FALSE /\ listed = <<>>
    /\ constructed = <<>>
    /\ vols = <<>> /\ vols_strict = <<>> /\ vdpc = "loop"

\* _volunteer_definitions lines 349-367: one turn of the loop
ReadVolunteer ==
    /\ vdpc = "loop" /\ Len(listed) < MaxEntries
    /\ \E args \in VolEntries :
          LET r == Volunteer(args, DOMAIN KnownPieces)
          IN  /\ listed' = Append(listed, args)
              /\ constructed' = r
              /\ IF r.kind = "ValueError"
                 THEN /\ vols' = Volunteers(FALSE, None)
                      /\ vols_strict' = Volunteers(FALSE, None)
                      /\ vdpc' = "failed"
                      /\ UNCHANGED <<volunteers, unknown_pieces>>
                 ELSE LET new == r.value[1]
                      IN  /\ volunteers' = IF new.email \in DOMAIN volunteers
                                           THEN [volunteers EXCEPT ![new.email] =
                                                    Volunteer_combine(@, new)]
                                           ELSE Put(volunteers, new.email, new)
                          /\ unknown_pieces' = (unknown_pieces \/ Len(new.unknown) > 0)
                          /\ UNCHANGED <<vols, vols_strict, vdpc>>
    /\ UNCHANGED notVol

\* read_volunteer_definitions(pieces, path, strict)
read_volunteer_definitions(entries, read, unknown, strict) ==
    LET no_pieces == \E email \in DOMAIN read : Len(read[email].pieces) = 0
    IN  IF Len(entries) = 0 THEN Volunteers(FALSE, None)
        ELSE IF no_pieces THEN Volunteers(FALSE, None)
        ELSE IF StrictAbort(strict, unknown) THEN Volunteers(FALSE, None)
        ELSE Volunteers(TRUE, read)

\* _volunteer_definitions lines 346-347 and 369-378,
\* read_volunteer_definitions lines 401-410
FinishVolunteers ==
    /\ vdpc = "loop"
    /\ vols' = read_volunteer_definitions(listed, volunteers, unknown_pieces, FALSE)
    /\ vols_strict' = read_volunteer_definitions(listed, volunteers, unknown_pieces, TRUE)
    /\ vdpc' = "done"
    /\ UNCHANGED <<volunteers, unknown_pieces, listed, constructed>>
    /\ UNCHANGED notVol

(***************************************************************************)
(* Claims about the readers of the definitions files                       *)
(***************************************************************************)
\* all the sources the entries read give for a title, in file order
RECURSIVE GivenSources(_, _)
GivenSources(entries, title) ==
    IF entries = <<>> THEN <<>>
    ELSE (IF Head(entries).title = title THEN Head(entries).sources ELSE <<>>)
             \o GivenSources(Tail(entries), title)
\* the piece of a title with all the sources of its entries combined
CombinedPiece(title) ==
    Piece([title |-> title, link |-> None, barCount |-> NoInt,
           sources |-> GivenSources(given, title)])
GivenTitles == {given[i].title : i \in 1..Len(given)}

\* C18 (as stated): for a non-empty definitions file whose entries are all
\* constructible, read_piece_definitions fails iff, with the entries of the
\* same title combined, some piece has no sources at all, each such piece
\* being reported; otherwise it returns exactly the pieces with at least one
\* primary source, the pieces with only supplemental sources excluded with a
\* warning.
C18_DefinitionsPartition ==
    (dpc \in {"done", "failed"} /\ Len(given) > 0 /\ entry.kind = "ok") =>
        LET no_sources == {t \in GivenTitles :
                              /\ DOMAIN CombinedPiece(t).sources = {}
                              /\ DOMAIN CombinedPiece(t).supplemental_sources = {}}
            normal == {t \in GivenTitles : DOMAIN CombinedPiece(t).sources # {}}
        IN  /\ defs.success <=> no_sources = {}
            /\ defs.no_sources = no_sources
            /\ defs.only_supplemental = GivenTitles \ (normal \cup no_sources)
            /\ defs.success => DOMAIN defs.pieces = normal

\* the first invalid source of the entry read last (0 if there is none)
FirstInvalid(args) ==
    IF \E i \in 1..Len(args.sources) : Source_init(args.sources[i]).kind # "ok"
    THEN CHOOSE i \in 1..Len(args.sources) :
            /\ Source_init(args.sources[i]).kind # "ok"
            /\ \A j \in 1..(i - 1) : Source_init(args.sources[j]).kind = "ok"
    ELSE 0

\* C20 (as stated): constructing a Piece whose source i (counted from 0) is
\* the first invalid one fails with a ValueError of message
\* "source i: <reason>", and the piece definitions reader returns the
\* failure "piece j: source i: <reason>" for entry j instead of letting an
\* exception escape.
C20_IndexQualifiedErrors ==
    (Len(given) > 0 /\ given[Len(given)].missing = {}
        /\ FirstInvalid(given[Len(given)]) > 0) =>
        LET args == given[Len(given)]
            i == FirstInvalid(args)
            reason == Source_init(args.sources[i]).args[1]
            message == "source " \o str(i - 1) \o ": " \o reason
        IN  /\ entry.kind = "ValueError"
            /\ entry.args = <<message>>
            /\ dpc = "failed"
            /\ defs.message = "piece " \o str(Len(given) - 1) \o ": " \o message

\* the entries read that have both keys, their emails, and the known pieces
\* they list for an email
Listed == {i \in 1..Len(listed) : listed[i].missing = {}}
ListedEmails == {listed[i].email : i \in Listed}
ListedFor(email) ==
    UNION {{listed[i].pieces[j] : j \in 1..Len(listed[i].pieces)} \cap KnownTitles :
              i \in {x \in Listed : listed[x].email = email}}
PiecesOf(volunteer) == {volunteer.pieces[i] : i \in 1..Len(volunteer.pieces)}
\* the volunteers are the entries' emails, each with the union of the known
\* pieces its entries list
Combines ==
    /\ DOMAIN volunteers = ListedEmails
    /\ \A e \in DOMAIN volunteers : PiecesOf(volunteers[e]) = ListedFor(e)
\* failure, strict or not, when some volunteer has no known piece;
\* otherwise with strict=False every volunteer is returned, each with at
\* least one piece and only known pieces
Reconciles ==
    IF \E e \in DOMAIN volunteers : ListedFor(e) = {}
    THEN ~vols.success /\ ~vols_strict.success
    ELSE /\ vols.success
         /\ DOMAIN vols.volunteers = ListedEmails
         /\ \A e \in ListedEmails :
               /\ PiecesOf(vols.volunteers[e]) = ListedFor(e)
               /\ PiecesOf(vols.volunteers[e]) # {}
               /\ PiecesOf(vols.volunteers[e]) \subseteq KnownTitles

\* C19 (as stated): entries with the same email are combined by union of
\* their known pieces; read_volunteer_definitions fails (strict or not) if
\* some volunteer has no known piece, and otherwise, with strict=False,
\* returns every volunteer, each with at least one piece and only known
\* pieces.
C19_VolunteersAlwaysReturned ==
    /\ vdpc = "loop" => Combines
    /\ vdpc \in {"done", "failed"} => Reconciles

\* C19 (amended): the same for a non-empty volunteer definitions file whose
\* entries all have the keys 'email' and 'pieces'; an empty file and a file
\* with an entry lacking a key make read_volunteer_definitions fail.
C19_VolunteersReconciled ==
    /\ vdpc = "loop" => Combines
    /\ vdpc \in {"done", "failed"} =>
          IF Len(listed) > 0 /\ Listed = 1..Len(listed)
          THEN Combines /\ Reconciles
          ELSE ~vols.success /\ ~vols_strict.success

C19_Witness ==
    /\ vdpc = "done" /\ Len(listed) = 2
    /\ listed[1].email = listed[2].email
    /\ listed[1].pieces = <<"K1", "Ghost">> /\ listed[2].pieces = <<"K2">>
    /\ vols.success /\ ~vols_strict.success
    /\ PiecesOf(vols.volunteers[listed[1].email]) = KnownTitles

\* the first place of a name in a list
FirstPlace(list, name) ==
    CHOOSE i \in 1..Len(list) :
        list[i] = name /\ \A j \in 1..(i - 1) : list[j] # name
NamesOf(list) == {list[i] : i \in 1..Len(list)}

\* C21: Volunteer(kwargs, known_pieces) of an entry with both keys has as
\* pieces exactly the listed names that are known pieces, each once and in
\* the order they are first listed, as unknown_pieces exactly the listed
\* names that are not known pieces, and no name in both.
\* (checked under SpecVolunteers)
C21_VolunteerPartition ==
    (Len(listed) > 0 /\ listed[Len(listed)].missing = {}) =>
        /\ constructed.kind = "ok"
        /\ LET names == listed[Len(listed)].pieces
               made == constructed.value[1]
           IN  /\ NamesOf(made.pieces) = NamesOf(names) \cap KnownTitles
               /\ Cardinality(NamesOf(made.pieces)) = Len(made.pieces)
               /\ \A i, j \in 1..Len(made.pieces) :
                      i < j => FirstPlace(names, made.pieces[i])
                                  < FirstPlace(names, made.pieces[j])
               /\ NamesOf(made.unknown) = NamesOf(names) \ KnownTitles
               /\ NamesOf(made.pieces) \cap NamesOf(made.unknown) = {}

C21_Witness ==
    /\ Len(listed) > 0 /\ constructed.kind = "ok"
    /\ listed[Len(listed)].pieces = <<"Ghost", "K2">>
    /\ constructed.value[1].pieces = <<"K2">>
    /\ constructed.value[1].unknown = <<"Ghost">>

\* the template a successful read_template returns is well formed
WellFormed(settings) ==
    /\ settings["values"]["defaultBarCount"] > 0
    /\ settings["values"]["commentsRowHeight"] >= 21
    /\ \A s \in {"masterSpreadsheet", "volunteerSpreadsheet"} :
          settings[s]["publicAccess"] \in {None, "view", "edit"}
    /\ \A k \in DOMAIN settings["validation"] :
          LET rule == settings["validation"][k]
          IN  /\ k \in DOMAIN settings["metaDataFields"]
              /\ rule.type # Absent
              /\ \/ rule.type[1] = "checkbox"
                 \/ /\ rule.type[1] = "dropdown"
                    /\ rule.values # Absent
                    /\ Len(rule.values[1]) > 0

\* C22: every template a successful read_template returns has a positive
\* defaultBarCount, a commentsRowHeight of at least 21, a publicAccess of
\* null, "view" or "edit" for both spreadsheets and only validation rules
\* of metadata fields that are a checkbox or a dropdown with at least one
\* value; a non-positive defaultBarCount or a commentsRowHeight below 21
\* makes the read fail with and without strict.
\* (checked under SpecTemplate)
C22_TemplateWellFormed ==
    tpc = "done" =>
        /\ template.success => WellFormed(template.values)
        /\ template_strict.success => WellFormed(template_strict.values)
        /\ (\/ raw_values["values"]["defaultBarCount"] <= 0
            \/ raw_values["values"]["commentsRowHeight"] < 21)
              => (~template.success /\ ~template_strict.success)

C22_Witness ==
    /\ tpc = "done" /\ template.success /\ ~template_strict.success
    /\ DOMAIN raw_values["validation"] = {"junk"}
    /\ raw_values["masterSpreadsheet"]["publicAccess"] = "all"
    /\ template.values["masterSpreadsheet"]["publicAccess"] = None

(***************************************************************************)
(* Claims about the strict flag (checked under SpecStrict)                 *)
(***************************************************************************)
\* a warning always means success without and failure with strict
EscalatesAlways(lenient_ok, strict_ok, warned) ==
    warned => (lenient_ok /\ ~strict_ok)
\* a warning means failure with strict; strict never succeeds where
\* non-strict fails; without a warning the two agree
Escalates(lenient_ok, strict_ok, warned) ==
    /\ warned => ~strict_ok
    /\ ~lenient_ok => ~strict_ok
    /\ ~warned => (strict_ok = lenient_ok)

Outcomes == {"ok", "refused", "raised"}
SI_SUMMARY_KEY == "SUMMARY"

CommandOptions ==
    [new : BOOLEAN, replace : BOOLEAN, extend : BOOLEAN, create : BOOLEAN,
     strict : BOOLEAN, shareWithVolunteer : BOOLEAN, volunteers : SUBSET Emails]

CreateInputs ==
    /\ \/ /\ command = "create_sheet"
          /\ options \in {o \in CommandOptions : ~o.create /\ o.volunteers # {}}
          /\ \E known \in SUBSET Emails : spreadsheets = [e \in known |-> "old"]
       \/ /\ command = "import_summary"
          /\ options \in {o \in CommandOptions :
                             /\ ~o.new /\ ~o.replace /\ ~o.extend
                             /\ ~o.shareWithVolunteer /\ o.volunteers = {}}
          /\ \E known \in SUBSET {SI_SUMMARY_KEY} :
                spreadsheets = [e \in known |-> "old"]
    /\ index_file = spreadsheets
    /\ drive = {} /\ created = <<>> /\ create_for = {} /\ to_populate = {}
    /\ current = None /\ cpc = "start" /\ stopped = None

\* create_spreadsheets.delete_created
delete_created(existing, ids) == existing \ {ids[i] : i \in 1..Len(ids)}

\* create_sheet lines 345-347 and 394-433: the volunteers to create a
\* spreadsheet for and the volunteers whose spreadsheet is populated
StartCreateSheet ==
    /\ command = "create_sheet" /\ cpc = "start"
    /\ LET already_exist == options.volunteers \cap DOMAIN spreadsheets
           for == IF options.new THEN options.volunteers
                  ELSE options.volunteers \ already_exist
           kept == IF options.new \/ options.extend \/ options.replace
                   THEN options.volunteers
                   ELSE options.volunteers \ already_exist
       IN  IF (options.extend /\ (options.replace \/ options.new)) \/ kept = {}
           THEN cpc' = "done" /\ UNCHANGED <<create_for, to_populate>>
           ELSE /\ create_for' = for
                /\ to_populate' = kept
                /\ cpc' = IF for = {} THEN "populate" ELSE "create"
    /\ UNCHANGED <<command, options, spreadsheets, index_file, drive, created,
                   current, stopped>>
    /\ UNCHANGED notCreate

\* a step of the command failed: what is left of the created spreadsheets
Stop(how, step, left) ==
    /\ cpc' = how /\ stopped' = step /\ drive' = left
    /\ UNCHANGED <<command, options, spreadsheets, index_file, created,
                   create_for, to_populate, current>>

\* create_spreadsheets lines 119-126: create_spreadsheet for the next email
CreateSpreadsheet ==
    /\ command = "create_sheet" /\ cpc = "create"
    /\ \E email \in create_for, outcome \in Outcomes :
          IF outcome = "ok"
          THEN /\ created' = Append(created, email)
               /\ drive' = drive \cup {email}
               /\ current' = email
               /\ cpc' = "permissions"
               /\ UNCHANGED <<command, options, spreadsheets, index_file,
                              create_for, to_populate, stopped>>
          ELSE IF outcome = "refused"
          THEN Stop("failed", "create_spreadsheet", delete_created(drive, created))
          ELSE Stop("raised", "create_spreadsheet", drive)
    /\ UNCHANGED notCreate

\* create_spreadsheets lines 142-143: the spreadsheet is recorded
Record ==
    /\ spreadsheets' = Put(spreadsheets, current, "new")
    /\ create_for' = create_for \ {current}
    /\ current' = None
    /\ cpc' = IF create_for \ {current} = {} THEN "populate" ELSE "create"
    /\ UNCHANGED <<command, options, index_file, drive, created, to_populate, stopped>>

\* create_spreadsheets lines 128-131: add_permissions, which catches every
\* exception and returns False
AddPermissions ==
    /\ command = "create_sheet" /\ cpc = "permissions"
    /\ \E outcome \in {"ok", "refused"} :
          IF outcome = "ok"
          THEN IF options.shareWithVolunteer
               THEN /\ cpc' = "share"
                    /\ UNCHANGED <<command, options, spreadsheets, index_file, drive,
                                   created, create_for, to_populate, current, stopped>>
               ELSE Record
          ELSE Stop("failed", "add_permissions", delete_created(drive, created))
    /\ UNCHANGED notCreate

\* create_spreadsheets lines 133-140: share_spreadsheet with the volunteer
ShareSpreadsheet ==
    /\ command = "create_sheet" /\ cpc = "share"
    /\ \E outcome \in Outcomes :
          IF outcome = "ok" THEN Record
          ELSE IF outcome = "refused"
          THEN Stop("failed", "share_spreadsheet", delete_created(drive, created))
          ELSE Stop("raised", "share_spreadsheet", drive)
    /\ UNCHANGED notCreate

\* populate_spreadsheets lines 171-248, one volunteer: a spreadsheet of the
\* index may not open, have extra sheets or refuse the temp sheet ("refused":
\* a warning, fatal with strict); a spreadsheet created in this run is
\* already open, is not extended and has a single sheet
PopulateSpreadsheet ==
    /\ command = "create_sheet" /\ cpc = "populate"
    /\ \E email \in to_populate, outcome \in Outcomes :
          /\ outcome = "refused" => spreadsheets[email] = "old"
          /\ IF outcome = "ok" \/ (outcome = "refused" /\ ~options.strict)
             THEN /\ to_populate' = to_populate \ {email}
                  /\ UNCHANGED <<command, options, spreadsheets, index_file, drive,
                                 created, create_for, current, cpc, stopped>>
             ELSE IF outcome = "refused"
             THEN Stop("failed", "populate_spreadsheets", drive)
             ELSE Stop("raised", "populate_spreadsheets", drive)
    /\ UNCHANGED notCreate

\* create_sheet lines 443-452: the index is written if spreadsheets were
\* created
WriteIndex ==
    /\ command = "create_sheet" /\ cpc = "populate" /\ to_populate = {}
    /\ index_file' = IF Len(created) > 0 THEN spreadsheets ELSE index_file
    /\ cpc' = "done"
    /\ UNCHANGED <<command, options, spreadsheets, drive, created, create_for,
                   to_populate, current, stopped>>
    /\ UNCHANGED notCreate

\* import_summary lines 142-174: the summary spreadsheet is created, or
\* opened from the index
ImportCreate ==
    /\ command = "import_summary" /\ cpc = "start"
    /\ LET create == options.create \/ SI_SUMMARY_KEY \notin DOMAIN spreadsheets
       IN  \E outcome \in Outcomes :
              IF outcome = "ok"
              THEN /\ options' = [options EXCEPT !.create = create]
                   /\ drive' = IF create THEN {SI_SUMMARY_KEY} ELSE drive
                   /\ cpc' = IF create THEN "permissions" ELSE "sheets"
                   /\ UNCHANGED <<command, spreadsheets, index_file, created,
                                  create_for, to_populate, current, stopped>>
              ELSE IF outcome = "refused"
              THEN Stop("failed", IF create THEN "create_spreadsheet"
                                  ELSE "open_spreadsheet", drive)
              ELSE Stop("raised", IF create THEN "create_spreadsheet"
                                  ELSE "open_spreadsheet", drive)
    /\ UNCHANGED notCreate

\* import_summary lines 160-169: add_permissions, then the link is saved
ImportPermissions ==
    /\ command = "import_summary" /\ cpc = "permissions"
    /\ \E outcome \in {"ok", "refused"} :
          IF outcome = "ok"
          THEN /\ spreadsheets' = Put(spreadsheets, SI_SUMMARY_KEY, "new")
               /\ cpc' = "sheets"
               /\ UNCHANGED <<command, options, index_file, drive, created,
                              create_for, to_populate, current, stopped>>
          ELSE Stop("failed", "add_permissions", drive \ {SI_SUMMARY_KEY})
    /\ UNCHANGED notCreate

\* import_summary lines 176-188: _create_piece_sheets returns False when the
\* temp sheet is refused and lets every other APIError through; the index
\* is written for a created spreadsheet
ImportPieceSheets ==
    /\ command = "import_summary" /\ cpc = "sheets"
    /\ \E outcome \in Outcomes :
          IF outcome = "ok"
          THEN /\ index_file' = IF options.create THEN spreadsheets ELSE index_file
               /\ cpc' = "done"
               /\ UNCHANGED <<command, options, spreadsheets, drive, created,
                              create_for, to_populate, current, stopped>>
          ELSE IF outcome = "refused"
          THEN Stop("failed", "_create_piece_sheets",
                    IF options.create THEN drive \ {SI_SUMMARY_KEY} ELSE drive)
          ELSE Stop("raised", "_create_piece_sheets", drive)
    /\ UNCHANGED notCreate

(***************************************************************************)
(* Claims about the spreadsheets the commands create                       *)
(* (checked under SpecCreate)                                              *)
(***************************************************************************)
\* the steps that create a spreadsheet, set its permissions, share it or
\* create its sheets
SetupSteps ==
    {"create_spreadsheet", "add_permissions", "share_spreadsheet",
     "_create_piece_sheets"}

\* C23 (as stated): whenever create_spreadsheets stops because creating,
\* sharing or setting the permissions of a spreadsheet failed, no
\* spreadsheet created during the call exists any more; likewise
\* import_summary has deleted a summary spreadsheet it created when the
\* permissions or the creation of the sheets fail.
C23_CleanupOnFailure ==
    (cpc \in {"failed", "raised"} /\ stopped \in SetupSteps) => drive = {}

\* C27 (as stated): when the create_sheet command has ended, every
\* spreadsheet it created in this run has been deleted or is recorded in
\* the spreadsheets index file.
C27_NoOrphanedSpreadsheets ==
    (command = "create_sheet" /\ cpc \in {"done", "failed", "raised"}) =>
        \A email \in drive :
            email \in DOMAIN index_file /\ index_file[email] = "new"

(***************************************************************************)
(* Strings, character by character: a string is the sequence of its        *)
(* characters.                                                             *)
(***************************************************************************)
MaxText == 3

\* s[i..] starts with p
At(s, i, p) ==
    /\ i >= 1 /\ i + Len(p) - 1 <= Len(s)
    /\ \A k \in 1..Len(p) : s[i + k - 1] = p[k]

\* str.replace(old, new): the occurrences of old from left to right, not
\* overlapping
RECURSIVE Replace(_, _, _)
Replace(s, old, new) ==
    IF s = <<>> THEN <<>>
    ELSE IF At(s, 1, old) THEN new \o Replace(SubSeq(s, Len(old) + 1, Len(s)), old, new)
    ELSE <<Head(s)>> \o Replace(Tail(s), old, new)

Quote == <<"\"">>
EscapedQuote == <<"\\", "\"">>

\* the fixed parts of HYPERLINK_RE = =HYPERLINK\("(.+)", "(.+)"\)
FormulaOpening == <<"=", "H", "Y", "P", "E", "R", "L", "I", "N", "K", "(", "\"">>
FormulaSeparator == <<"\"", ",", " ", "\"">>
FormulaClosing == <<"\"", ")">>

\* (.+): one or more characters, none of them a line break
Group(s, lo, hi) == lo <= hi /\ \A k \in lo..hi : s[k] # "\n"

\* HYPERLINK_RE.match(hyperlink): the groups of the match, both taken as
\* long as possible, the first one first; <<>> if there is no match
HYPERLINK_RE(hyperlink) ==
    LET start == Len(FormulaOpening) + 1
        ends(i) == {j \in (i + Len(FormulaSeparator) + 1)..Len(hyperlink) :
                       /\ Group(hyperlink, i + Len(FormulaSeparator), j - 1)
                       /\ At(hyperlink, j, FormulaClosing)}
        seps == {i \in (start + 1)..Len(hyperlink) :
                    /\ Group(hyperlink, start, i - 1)
                    /\ At(hyperlink, i, FormulaSeparator)
                    /\ ends(i) # {}}
        groups(i, j) ==
            << <<SubSeq(hyperlink, start, i - 1),
                 SubSeq(hyperlink, i + Len(FormulaSeparator), j - 1)>> >>
        longest(i) == groups(i, CHOOSE j \in ends(i) : \A k \in ends(i) : k <= j)
    IN  IF ~At(hyperlink, 1, FormulaOpening) \/ seps = {} THEN <<>>
        ELSE longest(CHOOSE i \in seps : \A k \in seps : k <= i)

\* what _parse_hyperlink returns: (link, text), each None or a string
Parsed(link, text) == [link |-> link, text |-> text]

\* _hyperlink(text, link) as a string
HyperlinkString(text, link) ==
    IF link = Absent THEN text
    ELSE FormulaOpening \o link[1] \o FormulaSeparator
             \o Replace(text, Quote, EscapedQuote) \o FormulaClosing

\* _parse_hyperlink(hyperlink) of a string
ParseHyperlinkString(hyperlink) ==
    LET groups(match) ==
            Parsed(Present(match[1][1]),
                   Present(Replace(match[1][2], EscapedQuote, Quote)))
    IN  IF HYPERLINK_RE(hyperlink) = <<>> THEN Parsed(Absent, Absent)
        ELSE groups(HYPERLINK_RE(hyperlink))

\* the texts and links of the model
TextChars == {"a", "\"", "\\", ",", " ", ")", "\n"}
Texts == UNION {[1..n -> TextChars] : n \in 0..MaxText}
LinkStrings ==
    {Absent, Present(<<"u">>), Present(<<>>),
     Present(<<"u", "\"", ",", " ", "\"", "v">>)}

LinkInputs ==
    /\ hl_text \in Texts /\ hl_link \in LinkStrings
    /\ hl_cell = <<>> /\ hl_parsed = <<>> /\ hpc = "input"

\* the cell is written: _hyperlink(text, link)
WriteHyperlink ==
    /\ hpc = "input"
    /\ hl_cell' = HyperlinkString(hl_text, hl_link)
    /\ hpc' = "written"
    /\ UNCHANGED <<hl_text, hl_link, hl_parsed>>
    /\ UNCHANGED notLink

\* the cell is read: _parse_hyperlink(cell)
ReadHyperlink ==
    /\ hpc = "written"
    /\ hl_parsed' = ParseHyperlinkString(hl_cell)
    /\ hpc' = "parsed"
    /\ UNCHANGED <<hl_text, hl_link, hl_cell>>
    /\ UNCHANGED notLink

\* C24 (as stated): for every link and every display text,
\* _parse_hyperlink(_hyperlink(text, link)) is (link, text); for the bare
\* text written when link is None it is (None, None).
\* (checked under SpecHyperlink)
C24_HyperlinkRoundTrip ==
    hpc = "parsed" =>
        IF hl_link = Absent THEN hl_parsed = Parsed(Absent, Absent)
        ELSE hl_parsed = Parsed(hl_link, Present(hl_text))

(***************************************************************************)
(* The notes column of the master sheet: note_str of create_master_sheet   *)
(* and parse_note of export_master_sheet.                                  *)
(***************************************************************************)
MaxNote == 2
LineBreak == <<"\n">>
ColonSpace == <<":", " ">>

\* the first place sep is at in s (0 if nowhere)
Find(s, sep) ==
    IF \E i \in 1..Len(s) : At(s, i, sep)
    THEN CHOOSE i \in 1..Len(s) : At(s, i, sep) /\ \A k \in 1..(i - 1) : ~At(s, k, sep)
    ELSE 0

\* str.split(sep): the list of the parts between the separators
RECURSIVE Split(_, _)
Split(s, sep) ==
    IF Find(s, sep) = 0 THEN <<s>>
    ELSE <<SubSeq(s, 1, Find(s, sep) - 1)>>
             \o Split(SubSeq(s, Find(s, sep) + Len(sep), Len(s)), sep)

\* str.split(sep, 1): one part, or the parts before and after the first sep
SplitOnce(s, sep) ==
    IF Find(s, sep) = 0 THEN <<s>>
    ELSE <<SubSeq(s, 1, Find(s, sep) - 1), SubSeq(s, Find(s, sep) + Len(sep), Len(s))>>

\* sep.join(list)
RECURSIVE Join(_, _)
Join(list, sep) ==
    IF list = <<>> THEN <<>>
    ELSE IF Len(list) = 1 THEN list[1]
    ELSE list[1] \o sep \o Join(Tail(list), sep)

\* note_str(notes): one line 'email: note' per item of the dict
note_str(items) ==
    Join([i \in 1..Len(items) |-> items[i][1] \o ColonSpace \o items[i][2]], LineBreak)

\* parse_note lines 702-713: the lines are read in order into `note`
RECURSIVE ParseLines(_, _)
ParseLines(lines, note) ==
    IF lines = <<>> THEN note
    ELSE IF Head(lines) = <<>> THEN ParseLines(Tail(lines), note)
    ELSE IF Len(SplitOnce(Head(lines), ColonSpace)) = 2
    THEN ParseLines(Tail(lines),
                    Put(note, SplitOnce(Head(lines), ColonSpace)[1],
                        SplitOnce(Head(lines), ColonSpace)[2]))
    ELSE ParseLines(Tail(lines), note)

\* parse_note(note_str)
parse_note(cell) == ParseLines(Split(cell, LineBreak), EmptyMap)

\* the notes mappings of the model: the notes of up to two contributors
NoteChars == {"a", ":", " ", "\n"}
NoteTexts == UNION {[1..n -> NoteChars] : n \in 0..MaxNote}
NoteEmails == {<<"a", "@", "x">>, <<"b", "@", "x">>}
NoteItems ==
    {<<>>} \cup {<< <<e, t>> >> : e \in NoteEmails, t \in NoteTexts}
    \cup {x \in {<< <<e1, t1>>, <<e2, t2>> >> :
                      e1 \in NoteEmails, e2 \in NoteEmails,
                      t1 \in NoteTexts, t2 \in NoteTexts} : x[1][1] # x[2][1]}
\* the mapping with these items
NoteMap(items) ==
    [e \in {items[i][1] : i \in 1..Len(items)} |->
        items[CHOOSE i \in 1..Len(items) : items[i][1] = e][2]]

NoteInputs ==
    /\ note_items \in NoteItems
    /\ note_cell = <<>> /\ note_parsed = <<>> /\ npc = "input"

\* create_master_sheet lines 532-538: the cell of the notes column
WriteNote ==
    /\ npc = "input"
    /\ note_cell' = note_str(note_items)
    /\ npc' = "written"
    /\ UNCHANGED <<note_items, note_parsed>>
    /\ UNCHANGED notNote

\* export_master_sheet lines 715-721: the cell is parsed
ReadNote ==
    /\ npc = "written"
    /\ note_parsed' = parse_note(note_cell)
    /\ npc' = "parsed"
    /\ UNCHANGED <<note_items, note_cell>>
    /\ UNCHANGED notNote

\* C29 (as stated): for every notes mapping {email: note} written by
\* note_str, parse_note returns the same mapping, also when a note contains
\* a line break or the text ': '.
\* (checked under SpecNotes)
C29_NotesRoundTrip ==
    npc = "parsed" => note_parsed = NoteMap(note_items)

(***************************************************************************)
(* Piece.create_sheet and Piece.export_sheet: the layout of a volunteer    *)
(* sheet (_piece.py)                                                       *)
(***************************************************************************)
\* bounds of the sheet model: the metadata fields of the template and the
\* cells a volunteer fills in
MaxFields == 2
MaxEdits == 2

\* template['metaDataFields'], in order: the key and the header of a field
MetaDataFields ==
    <<[key |-> "title", header |-> "Title"], [key |-> "tempo", header |-> "Tempo"],
      [key |-> "key", header |-> "Key"]>>
\* template['commentFields']
NotesTitle == Text("Notes")
CommentsTitle == Text("Comments")
SupplementalTitle == Text("Supplemental sources")
\* the hyperlinks of the sources of a piece
SourceCells == <<Formula("u", "Foo"), Formula("v", "Bar"), Formula("w", "Baz")>>
SupplementalCell == Formula("s", "Sup")

\* a piece with its template: the number of metadata fields, the bar
\* count, the number of sources, its link, and whether it has a
\* supplemental source
SheetPieces ==
    [fields : 0..MaxFields, final_bar_count : 1..MaxBars, sources : 1..MaxSources,
     link : {None, "p"}, supplemental : BOOLEAN]

\* a row that holds one cell in its first column, as get_values returns it
FirstCell(cell, width) == [j \in 1..width |-> IF j = 1 THEN cell ELSE Blank]

\* lines 380-416: the values create_sheet puts in the sheet (the placeholder
\* text of `resize` is cleared again in lines 425-428); lines 328-355: one
\* supplemental source goes in a column after the notes column, in the row
\* below row 1
create_sheet(p) ==
    LET row1 == <<_hyperlink("K1", p.link)>> \o SubSeq(SourceCells, 1, p.sources)
                    \o <<NotesTitle>>
                    \o (IF p.supplemental THEN <<SupplementalTitle>> ELSE <<>>)
        width == Len(row1)
        rows == <<row1>>
                    \o [k \in 1..p.fields |-> FirstCell(Text(MetaDataFields[k].header), width)]
                    \o <<FirstCell(Blank, width)>>
                    \o [i \in 1..p.final_bar_count |-> FirstCell(i, width)]
                    \o <<FirstCell(Blank, width), FirstCell(CommentsTitle, width)>>
    IN  IF p.supplemental
        THEN [rows EXCEPT ![2][width] = SupplementalCell]
        ELSE rows

\* lines 1083-1120, with rows and columns counted from 0 as in the code
\* (row r, column c of the sheet is vals[r + 1][c + 1])
_export_helper(vals, headers, is_master) ==
    LET row1 == vals[1]
        parsed == _parse_hyperlink(row1[1])
        start_row == IF is_master THEN 2 ELSE 1
        found == {i \in 0..(Len(row1) - 1) : row1[i + 1] = NotesTitle}
    IN  [piece_link |-> parsed[1],
         piece_name |-> IF parsed[2] = None THEN row1[1][2] ELSE parsed[2],
         headers_iter |-> [k \in 1..Len(headers) |->
                              [row |-> start_row + k - 1, header |-> headers[k]]],
         bars_iter |-> (start_row + Len(headers) + 1)..(Len(vals) - 2 - 1),
         comments_row |-> Len(vals) - 1,
         notes_col |-> IF found = {} THEN Len(row1) - 1 ELSE SetMax(found)]

\* lines 591-601: export_column of export_sheet; a bar is keyed by the
\* cell of its row in the first column, a later row replacing an earlier
\* one with the same key
export_sheet_column(vals, h, c, include_comments) ==
    LET key(row) == vals[row + 1][1]
        row_of(b) == SetMax({row \in h.bars_iter : key(row) = b})
    IN  [fields |-> [f \in {h.headers_iter[k].header : k \in DOMAIN h.headers_iter} |->
                        LET k == CHOOSE k \in DOMAIN h.headers_iter :
                                     h.headers_iter[k].header = f
                        IN  vals[h.headers_iter[k].row + 1][c + 1]],
         bars |-> [b \in {key(row) : row \in h.bars_iter} |-> vals[row_of(b) + 1][c + 1]],
         comments |-> IF include_comments THEN <<vals[h.comments_row + 1][c + 1]>>
                      ELSE <<>>]

\* lines 583-627
export_sheet(vals, headers) ==
    LET h == _export_helper(vals, headers, TRUE)
        cols == 1..(h.notes_col - 1)
        invalid == {c \in cols : _parse_hyperlink(vals[1][c + 1])[1] = None}
    IN  IF invalid # {}
        THEN [ok |-> FALSE]
        ELSE [ok |-> TRUE,
              title |-> h.piece_name,
              link |-> h.piece_link,
              sources |-> [c \in cols |->
                              [name |-> _parse_hyperlink(vals[1][c + 1])[2],
                               link |-> _parse_hyperlink(vals[1][c + 1])[1],
                               column |-> export_sheet_column(vals, h, c, TRUE)]],
              notes |-> export_sheet_column(vals, h, h.notes_col, FALSE)]

FieldKeys(n) == [k \in 1..n |-> MetaDataFields[k].key]

SheetInputs ==
    /\ sheet_piece \in SheetPieces
    /\ sheet_values = <<>> /\ sheet_edits = 0 /\ sheet_out = <<>> /\ shpc = "input"

\* lines 359-430: Piece.create_sheet
CreateSheet ==
    /\ shpc = "input"
    /\ sheet_values' = create_sheet(sheet_piece)
    /\ shpc' = "created"
    /\ UNCHANGED <<sheet_piece, sheet_edits, sheet_out>>
    /\ UNCHANGED notSheet

\* the volunteer types a value in a cell of a source column or of the
\* notes column
VolunteerEdit ==
    /\ shpc = "created" /\ sheet_edits < MaxEdits
    /\ \E r \in 1..Len(sheet_values), c \in 2..(sheet_piece.sources + 2), v \in {"x", "y"} :
          sheet_values' = [sheet_values EXCEPT ![r][c] = Text(v)]
    /\ sheet_edits' = sheet_edits + 1
    /\ UNCHANGED <<sheet_piece, sheet_out, shpc>>
    /\ UNCHANGED notSheet

\* lines 564-627: Piece.export_sheet
ExportSheet ==
    /\ shpc = "created"
    /\ sheet_out' = export_sheet(sheet_values, FieldKeys(sheet_piece.fields))
    /\ shpc' = "exported"
    /\ UNCHANGED <<sheet_piece, sheet_values, sheet_edits>>
    /\ UNCHANGED notSheet

\* C25 (as stated): for a sheet laid out by create_sheet for a piece with H
\* metadata fields and N bars, export_sheet returns for every source column
\* each metadata field's value taken from that field's own row, a 'bars'
\* mapping with exactly the bar numbers 1..N each taken from its own row,
\* and the comments from the comments row.
\* (checked under SpecSheet)
C25_ExportReadsLayout ==
    (shpc = "exported" /\ sheet_values[1] = create_sheet(sheet_piece)[1]) =>
        LET H == sheet_piece.fields
            N == sheet_piece.final_bar_count
        IN  /\ sheet_out.ok
            /\ Len(sheet_out.sources) = sheet_piece.sources
            /\ \A c \in 1..sheet_piece.sources :
                  LET column == sheet_out.sources[c].column
                  IN  /\ \A k \in 1..H :
                            column.fields[MetaDataFields[k].key] = sheet_values[1 + k][c + 1]
                      /\ DOMAIN column.bars = 1..N
                      /\ \A b \in 1..N :
                            column.bars[b] = sheet_values[1 + H + 1 + b][c + 1]
                      /\ column.comments = <<sheet_values[Len(sheet_values)][c + 1]>>

(***************************************************************************)
(* The fix_input command (fix_input.py) and fix_piece_definitions          *)
(* (_input_files.py)                                                       *)
(***************************************************************************)
\* the keys of FILES, in the order fix_input handles them, and a key that
\* is not one of them
FILES == <<"settings", "pieces", "volunteers", "spreadsheetsIndex">>
FileKeys == {FILES[i] : i \in DOMAIN FILES}
UnknownKey == "index"

\* the piece definitions file: whether the settings and the file can be
\* read with every entry a piece, and for each title in it what the
\* combined piece has: sources, only supplemental sources, or none
PieceKinds == {"sources", "only_supplemental", "no_sources"}
PiecesFile(readable, kinds) == [readable |-> readable, kinds |-> kinds]
PiecesFiles ==
    {PiecesFile(FALSE, <<>>)}
        \cup {PiecesFile(TRUE, kinds) :
                 kinds \in UNION {[titles -> PieceKinds] : titles \in SUBSET {"K1", "K2"}}}

\* _input_files.py lines 172-228: (success, no_sources, pieces,
\* only_supplemental), the pieces as the set of their titles
_piece_definitions(file) ==
    IF ~file.readable \/ DOMAIN file.kinds = {}
    THEN [success |-> FALSE, no_sources |-> FALSE, filtered |-> {},
          only_supplemental |-> {}]
    ELSE [success |-> TRUE,
          no_sources |-> \E t \in DOMAIN file.kinds : file.kinds[t] = "no_sources",
          filtered |-> {t \in DOMAIN file.kinds : file.kinds[t] = "sources"},
          only_supplemental |->
              {t \in DOMAIN file.kinds : file.kinds[t] = "only_supplemental"}]

\* _input_files.py lines 231-275: (success, pieces)
read_piece_definitions(file) ==
    LET r == _piece_definitions(file)
    IN  IF ~r.success \/ r.no_sources
        THEN <<FALSE, Absent>>
        ELSE <<TRUE, Present(r.filtered)>>

\* _input_files.py lines 278-318: (success, pieces), and the file it
\* leaves on disk
fix_piece_definitions(file) ==
    LET r == _piece_definitions(file)
        kept == r.filtered \cup r.only_supplemental
    IN  IF ~r.success \/ kept = {}
        THEN [returned |-> <<FALSE, Absent>>, file |-> file]
        ELSE [returned |-> <<TRUE, Present(kept)>>,
              file |-> PiecesFile(TRUE, [t \in kept |-> file.kinds[t]])]

\* what _fix_volunteers did: it refused, it could not read the template or
\* the pieces, or it called fix_volunteer_definitions with some pieces
Refused == [outcome |-> "refused", pieces |-> {}]
NotRead == [outcome |-> "not read", pieces |-> {}]
FixedAgainst(known) == [outcome |-> "fixed", pieces |-> known]

\* fix_input.py lines 42-72
_fix_volunteers(error_flag, known, template_read, file) ==
    IF error_flag
    THEN Refused
    ELSE IF known = Absent
    THEN IF ~template_read \/ ~read_piece_definitions(file)[1]
         THEN NotRead
         ELSE FixedAgainst(read_piece_definitions(file)[2][1])
    ELSE FixedAgainst(known[1])

FixInputs ==
    /\ fix_given \in SUBSET (FileKeys \cup {UnknownKey})
    /\ pieces_file \in PiecesFiles /\ pieces_file0 = pieces_file
    /\ template_ok \in BOOLEAN
    /\ fix_files = {} /\ pieces_error = FALSE /\ fix_pieces = Absent
    /\ fix_done = <<>> /\ fix_result = <<>> /\ fpc = "input"

\* fix_input.py lines 105-119: the files to fix
StartFixInput ==
    /\ fpc = "input"
    /\ fix_files' = IF fix_given = {} THEN FileKeys ELSE fix_given \cap FileKeys
    /\ fpc' = IF fix_files' = {} THEN "done" ELSE "settings"
    /\ UNCHANGED <<fix_given, pieces_file, pieces_file0, template_ok, pieces_error,
                   fix_pieces, fix_done, fix_result>>
    /\ UNCHANGED notFix

\* fix_input.py lines 121-123
FixInputSettings ==
    /\ fpc = "settings"
    /\ fix_done' = IF "settings" \in fix_files THEN Append(fix_done, "settings")
                   ELSE fix_done
    /\ fpc' = "pieces"
    /\ UNCHANGED <<fix_given, fix_files, pieces_file, pieces_file0, template_ok,
                   pieces_error, fix_pieces, fix_result>>
    /\ UNCHANGED notFix

\* fix_input.py lines 125-128
FixInputPieces ==
    /\ fpc = "pieces"
    /\ IF "pieces" \in fix_files
       THEN LET r == fix_piece_definitions(pieces_file)
            IN  /\ pieces_error' = r.returned[1]
                /\ fix_pieces' = r.returned[2]
                /\ pieces_file' = r.file
                /\ fix_done' = Append(fix_done, "pieces")
       ELSE /\ pieces_error' = FALSE /\ fix_pieces' = Absent
            /\ UNCHANGED <<pieces_file, fix_done>>
    /\ fpc' = "volunteers"
    /\ UNCHANGED <<fix_given, fix_files, pieces_file0, template_ok, fix_result>>
    /\ UNCHANGED notFix

\* fix_input.py lines 130-132
FixInputVolunteers ==
    /\ fpc = "volunteers"
    /\ IF "volunteers" \in fix_files
       THEN /\ fix_result' = <<_fix_volunteers(pieces_error, fix_pieces, template_ok,
                                               pieces_file)>>
            /\ fix_done' = Append(fix_done, "volunteers")
       ELSE UNCHANGED <<fix_result, fix_done>>
    /\ fpc' = "spreadsheetsIndex"
    /\ UNCHANGED <<fix_given, fix_files, pieces_file, pieces_file0, template_ok,
                   pieces_error, fix_pieces>>
    /\ UNCHANGED notFix

\* fix_input.py lines 134-136
FixInputIndex ==
    /\ fpc = "spreadsheetsIndex"
    /\ fix_done' = IF "spreadsheetsIndex" \in fix_files
                   THEN Append(fix_done, "spreadsheetsIndex")
                   ELSE fix_done
    /\ fpc' = "done"
    /\ UNCHANGED <<fix_given, fix_files, pieces_file, pieces_file0, template_ok,
                   pieces_error, fix_pieces, fix_result>>
    /\ UNCHANGED notFix

\* the position of a key in FILES
FileOrder(k) == CHOOSE i \in DOMAIN FILES : FILES[i] = k

\* C26 (as stated): the steps of fix_input run in the order settings,
\* pieces, volunteers, spreadsheetsIndex; when both 'pieces' and
\* 'volunteers' are fixed and fixing the piece definitions succeeded, the
\* volunteer definitions are fixed against the pieces just returned, and
\* the volunteers fix is refused only when fixing the piece definitions
\* file failed.
\* (checked under SpecFixInput)
C26_VolunteersAfterPieces ==
    /\ \A i, j \in DOMAIN fix_done :
          i < j => FileOrder(fix_done[i]) < FileOrder(fix_done[j])
    /\ (fpc = "done" /\ {"pieces", "volunteers"} \subseteq fix_files) =>
          LET fixed == fix_piece_definitions(pieces_file0).returned
          IN  /\ fixed[1] => fix_result = <<FixedAgainst(fixed[2][1])>>
              /\ fix_result = <<Refused>> => ~fixed[1]

(***************************************************************************)
(* The temp sheet of populate_spreadsheets (create_sheet.py) and of        *)
(* _create_piece_sheets (import_summary.py, import_master.py)              *)
(***************************************************************************)
\* bound of the worksheet model: the worksheets a spreadsheet has before it
\* is populated
MaxSheets == 2

\* names of pieces and titles of worksheets
PieceTitles == {"K1", "K2", "_temp"}
SheetTitles == PieceTitles \cup {"Sheet1", "_temp1"}
TitleSet(ts) == {ts[i] : i \in DOMAIN ts}
Distinct(ts) == \A i, j \in DOMAIN ts : i # j => ts[i] # ts[j]
Without(ts, gone) == SelectSeq(ts, LAMBDA t : t \notin gone)

\* _sheets.py lines 223-227: the title of the temp sheet
RECURSIVE TempTitle(_, _)
TempTitle(invalid, count) ==
    LET title == IF count = 0 THEN "_temp" ELSE "_temp" \o str(count)
    IN  IF title \in invalid THEN TempTitle(invalid, count + 1) ELSE title

\* the names add_temp_sheet is told to avoid: create_sheet.py line 208,
\* import_summary.py line 48, import_master.py lines 53-57
InvalidNames(mode, names, sheet_names) ==
    IF mode = "summary" THEN names ELSE names \cup sheet_names

\* the spreadsheet service on add_worksheet and update_title: a 403 if the
\* spreadsheet cannot be edited, a 400 if a worksheet has the title already
Rejection(flags, ts, title) ==
    IF ~flags.editable THEN "permission denied"
    ELSE IF title \in TitleSet(ts) THEN "duplicate title"
    ELSE None

WsFlags == [extend : BOOLEAN, strict : BOOLEAN, editable : BOOLEAN]
WsInputs ==
    /\ ws_mode \in {"populate", "summary", "master"}
    /\ ws_flags \in {f \in WsFlags : f.extend => ws_mode = "populate"}
    /\ ws_titles \in {ts \in UNION {[1..n -> SheetTitles] : n \in 1..MaxSheets} :
                         Distinct(ts)}
    /\ ws_pieces \in {ps \in UNION {[1..n -> PieceTitles] : n \in 1..2} : Distinct(ps)}
    /\ ws_copied \in {cs \in SUBSET TitleSet(ws_pieces) : cs # {} => ws_mode = "populate"}
    /\ ws_existing = TitleSet(ws_titles)
    /\ ws_temp = Absent /\ ws_next = 1 /\ ws_error = None /\ wpc = "start"

\* what is left alone by every step
wsInputs == <<ws_mode, ws_flags, ws_pieces, ws_copied>>

\* create_sheet.py lines 182-215, import_summary.py lines 46-50,
\* import_master.py lines 52-60: decide on the temp sheet
AddTempSheet ==
    /\ wpc = "start"
    /\ LET names == TitleSet(ws_pieces)
           title == TempTitle(InvalidNames(ws_mode, names, ws_existing), 0)
           rejected == Rejection(ws_flags, ws_titles, title)
       IN  IF ws_mode = "populate" /\ ws_flags.extend
           THEN \* only the missing pieces are created
                /\ wpc' = IF ws_existing \ names # {} /\ ws_flags.strict
                          THEN "failed" ELSE "create"
                /\ UNCHANGED <<ws_titles, ws_existing, ws_temp, ws_error>>
           ELSE IF ws_mode = "populate" /\ Len(ws_titles) = 1
           THEN \* the only sheet is the temp sheet
                /\ ws_temp' = Present(ws_titles[1])
                /\ ws_existing' = {}
                /\ wpc' = "create"
                /\ UNCHANGED <<ws_titles, ws_error>>
           ELSE IF rejected = "permission denied"
           THEN \* add_temp_sheet returns (False, None)
                /\ wpc' = IF ws_mode = "populate" /\ ~ws_flags.strict
                          THEN "skipped" ELSE "failed"
                /\ UNCHANGED <<ws_titles, ws_existing, ws_temp, ws_error>>
           ELSE IF rejected # None
           THEN \* add_temp_sheet raises the APIError again
                /\ wpc' = "raised" /\ ws_error' = rejected
                /\ UNCHANGED <<ws_titles, ws_existing, ws_temp>>
           ELSE /\ ws_titles' = Append(ws_titles, title)
                /\ ws_temp' = Present(title)
                /\ wpc' = "delete"
                /\ UNCHANGED <<ws_existing, ws_error>>
    /\ UNCHANGED <<wsInputs, ws_next>>
    /\ UNCHANGED notWs

\* create_sheet.py lines 217-219, import_summary.py lines 51-52,
\* import_master.py lines 61-62: delete the existing sheets
DeleteExisting ==
    /\ wpc = "delete"
    /\ ws_titles' = Without(ws_titles, ws_existing)
    /\ ws_existing' = {}
    /\ wpc' = "create"
    /\ UNCHANGED <<wsInputs, ws_temp, ws_next, ws_error>>
    /\ UNCHANGED notWs

\* create_sheet.py lines 223-241, import_summary.py lines 54-56,
\* import_master.py lines 64-66: one turn of the loop over the pieces; a
\* sheet is created with the name of the piece as its title, or copied from
\* another spreadsheet and then given that title
CreatePieceSheet ==
    /\ wpc = "create" /\ ws_next <= Len(ws_pieces)
    /\ LET name == ws_pieces[ws_next]
           rejected == Rejection(ws_flags, ws_titles, name)
           copy == "Copy of " \o name
       IN  IF name \in ws_existing
           THEN UNCHANGED <<ws_titles, ws_error, wpc>>
           ELSE IF rejected = None
           THEN ws_titles' = Append(ws_titles, name) /\ UNCHANGED <<ws_error, wpc>>
           ELSE /\ ws_titles' = IF name \in ws_copied /\ ws_flags.editable
                                THEN Append(ws_titles, copy)
                                ELSE ws_titles
                /\ ws_error' = rejected /\ wpc' = "raised"
    /\ ws_next' = ws_next + 1
    /\ UNCHANGED <<wsInputs, ws_existing, ws_temp>>
    /\ UNCHANGED notWs

\* create_sheet.py lines 244-245, import_summary.py lines 58-59,
\* import_master.py lines 68-69: delete the temp sheet
DeleteTempSheet ==
    /\ wpc = "create" /\ ws_next > Len(ws_pieces)
    /\ ws_titles' = IF ws_temp = Absent THEN ws_titles
                    ELSE Without(ws_titles, {ws_temp[1]})
    /\ ws_temp' = Absent
    /\ wpc' = "done"
    /\ UNCHANGED <<wsInputs, ws_existing, ws_next, ws_error>>
    /\ UNCHANGED notWs

\* the piece sheets that are still to be created
ToCreate == {ws_pieces[i] : i \in {j \in DOMAIN ws_pieces : j >= ws_next}} \ ws_existing

\* C28 (as stated): at every step of populate_spreadsheets and of
\* _create_piece_sheets no two worksheets of the spreadsheet have the same
\* title, no step asks the service for a title that a worksheet has
\* already, and the sheet used as the temp sheet never has the title of an
\* existing sheet nor of a piece sheet that is about to be created.
\* (checked under SpecWorksheets)
C28_TitlesUnique ==
    /\ Distinct(ws_titles)
    /\ ws_error # "duplicate title"
    /\ (ws_temp # Absent /\ wpc \in {"delete", "create"}) =>
          /\ Cardinality({i \in DOMAIN ws_titles : ws_titles[i] = ws_temp[1]}) = 1
          /\ ws_temp[1] \notin ToCreate

(***************************************************************************)
(* _read_settings and the global SETTINGS (_read_write.py)                 *)
(***************************************************************************)
\* bounds of the settings model: the calls of _read_settings in one
\* process, and the parts of a path
MaxCalls == 3
MaxParts == 2

\* a path is a list of parts, a part is a string; a string is the sequence
\* of its pieces of text, so that the occurrences of "{email}" and "{piece}"
\* in it can be counted
EmailField == "{email}"
PieceField == "{piece}"
Strings(field) == UNION {[1..n -> {field, "a"}] : n \in 1..2}
Lists(field) == UNION {[1..n -> Strings(field)] : n \in 1..MaxParts}

\* a value of the settings file: a string or a list of strings
StrValue(string) == [kind |-> "str", value |-> string]
ListValue(list) == [kind |-> "list", value |-> list]
RawPaths(field) ==
    {StrValue(string) : string \in Strings(field)}
        \cup {ListValue(list) : list \in Lists(field)}

\* lines 41-59: FILES['settings'], flattened
SettingsDefaults ==
    [credentials |-> <<<<"credentials.json">>>>,
     template |-> <<<<"input">>, <<"template_definitions.json">>>>,
     pieces |-> <<<<"input">>, <<"piece_definitions.json">>>>,
     volunteers |-> <<<<"input">>, <<"volunteer_definitions.json">>>>,
     spreadsheetsIndex |-> <<<<"output">>, <<"spreadsheets.json">>>>,
     volunteerDataPath |->
         <<<<"output">>, <<"data">>, <<"by-volunteer">>, <<EmailField, ".json">>>>,
     pieceDataPath |-> <<<<"output">>, <<"data">>, <<"by-piece">>, <<PieceField, ".json">>>>,
     summary |-> <<<<"output">>, <<"summary.json">>>>]

\* the settings file: missing, not JSON, or a JSON object; of the object
\* the two data paths under 'outputs' matter here, each given or not
SettingsFile(kind, outputs) == [kind |-> kind, outputs |-> outputs]
SettingsFiles ==
    {SettingsFile("missing", <<>>), SettingsFile("invalid", <<>>)}
        \cup {SettingsFile("object", [volunteerDataPath |-> v, pieceDataPath |-> p]) :
                 v \in {Absent} \cup {Present(x) : x \in RawPaths(EmailField)},
                 p \in {Absent} \cup {Present(x) : x \in RawPaths(PieceField)}}

\* lines 246-247 and 258-259: turn into a list if a str
AsList(raw) == IF raw.kind = "str" THEN <<raw.value>> ELSE raw.value

\* lines 232-260: the settings of a file that could be read
Flattened(file) ==
    [k \in DOMAIN SettingsDefaults \cup {"authorized_user"} |->
        IF k = "authorized_user" THEN <<<<"authorized_user.json">>>>
        ELSE IF file.kind = "object" /\ k \in DOMAIN file.outputs
                /\ file.outputs[k] # Absent
        THEN AsList(file.outputs[k][1])
        ELSE SettingsDefaults[k]]

\* str.count on a string, and lines 267-270: the sum over the parts
RECURSIVE Occurrences(_, _)
Occurrences(string, search) ==
    IF string = <<>> THEN 0
    ELSE (IF Head(string) = search THEN 1 ELSE 0) + Occurrences(Tail(string), search)
RECURSIVE CountIn(_, _)
CountIn(path, search) ==
    IF path = <<>> THEN 0
    ELSE Occurrences(Head(path), search) + CountIn(Tail(path), search)

\* lines 262-274: validate values
ValidSettings(settings) ==
    /\ CountIn(settings["volunteerDataPath"], EmailField) = 1
    /\ CountIn(settings["pieceDataPath"], PieceField) = 1

CacheInputs ==
    /\ settings_file \in SettingsFiles
    /\ SETTINGS = <<>> /\ returned = <<>>

\* lines 217-276: one call of _read_settings
ReadSettings ==
    /\ Len(returned) < MaxCalls
    /\ IF SETTINGS # <<>>
       THEN \* lines 228-229
            returned' = Append(returned, "True") /\ UNCHANGED SETTINGS
       ELSE IF settings_file.kind = "invalid"
       THEN \* json.loads raises a ValueError, which is not caught
            returned' = Append(returned, "raised") /\ UNCHANGED SETTINGS
       ELSE /\ SETTINGS' = Flattened(settings_file)
            /\ returned' = Append(returned, IF ValidSettings(SETTINGS')
                                            THEN "True" ELSE "False")
    /\ UNCHANGED settings_file
    /\ UNCHANGED notCache

\* C30 (as stated): only the first call of _read_settings populates
\* SETTINGS and later calls never modify it; a call returns True only if
\* the cached settings passed validation; once a call has returned False,
\* every later call also returns False.
\* (checked under SpecSettings)
C30_SettingsCacheStable ==
    /\ [][returned # <<>> => SETTINGS' = SETTINGS]_vars
    /\ [](\A i \in DOMAIN returned :
             returned[i] = "True" => SETTINGS # <<>> /\ ValidSettings(SETTINGS))
    /\ [](\A i, j \in DOMAIN returned :
             (i < j /\ returned[i] = "False") => returned[j] = "False")

(***************************************************************************)
(* The specifications                                                      *)
(***************************************************************************)
ValIdle ==
    /\ fixed_pieces = <<>> /\ raw_piece = <<>> /\ lenient = <<>> /\ strictr = <<>>
    /\ titles_read = {} /\ nread = 0 /\ vpc = "idle"
ExtIdle ==
    /\ volunteers_data = <<>> /\ to_extract = {} /\ extracted = <<>>
    /\ extracted_strict = <<>> /\ xpc = "idle"
DefIdle == pieces = <<>> /\ given = <<>> /\ entry = <<>> /\ defs = <<>> /\ dpc = "idle"
VolIdle ==
    /\ volunteers = <<>> /\ unknown_pieces = FALSE /\ listed = <<>>
    /\ constructed = <<>>
    /\ vols = <<>> /\ vols_strict = <<>> /\ vdpc = "idle"
TplIdle == raw_values = <<>> /\ template = <<>> /\ template_strict = <<>> /\ tpc = "idle"
CreateIdle ==
    /\ command = "idle" /\ options = <<>> /\ spreadsheets = <<>> /\ index_file = <<>>
    /\ drive = {} /\ created = <<>> /\ create_for = {} /\ to_populate = {}
    /\ current = None /\ cpc = "idle" /\ stopped = None
LinkIdle ==
    /\ hl_text = <<>> /\ hl_link = <<>> /\ hl_cell = <<>> /\ hl_parsed = <<>>
    /\ hpc = "idle"
NoteIdle == note_items = <<>> /\ note_cell = <<>> /\ note_parsed = <<>> /\ npc = "idle"
SheetIdle ==
    /\ sheet_piece = <<>> /\ sheet_values = <<>> /\ sheet_edits = 0
    /\ sheet_out = <<>> /\ shpc = "idle"
FixIdle ==
    /\ fix_given = {} /\ fix_files = {} /\ pieces_file = <<>> /\ pieces_file0 = <<>>
    /\ template_ok = FALSE /\ pieces_error = FALSE /\ fix_pieces = <<>>
    /\ fix_done = <<>> /\ fix_result = <<>> /\ fpc = "idle"
WsIdle ==
    /\ ws_mode = "idle" /\ ws_flags = <<>> /\ ws_titles = <<>> /\ ws_existing = {}
    /\ ws_temp = <<>> /\ ws_pieces = <<>> /\ ws_copied = {} /\ ws_next = 0
    /\ ws_error = None /\ wpc = "idle"
CacheIdle == settings_file = <<>> /\ SETTINGS = <<>> /\ returned = <<>>
LateIdle == SheetIdle /\ FixIdle /\ WsIdle /\ CacheIdle
ToolIdle == CreateIdle /\ LinkIdle /\ NoteIdle /\ LateIdle
InputIdle == DefIdle /\ VolIdle /\ TplIdle /\ ToolIdle
CoreIdle ==
    /\ ReconIdle /\ SourceIdle /\ PieceIdle /\ ExportIdle /\ RotIdle
    /\ ValIdle /\ ExtIdle /\ DefIdle /\ VolIdle /\ TplIdle
DataIdle == RotIdle /\ ValIdle /\ ExtIdle /\ InputIdle
EarlyIdle == CoreIdle /\ CreateIdle /\ LinkIdle /\ NoteIdle

ReconNext == Reconcile \/ ReconcileAgain
ReconInit == ReconInputs /\ SourceIdle /\ PieceIdle /\ ExportIdle /\ DataIdle
SpecRecon == ReconInit /\ [][ReconNext]_vars
SourceInit == ReconIdle /\ SourceInputs /\ PieceIdle /\ ExportIdle /\ DataIdle
SourceNext == SourceCombine
SpecSource == SourceInit /\ [][SourceNext]_vars

PieceInit == ReconIdle /\ SourceIdle /\ PieceInputs /\ ExportIdle /\ DataIdle
PieceNext == PieceCombine
SpecPiece == PieceInit /\ [][PieceNext]_vars
ExportInit == ReconIdle /\ SourceIdle /\ PieceIdle /\ ExportInputs /\ DataIdle
ExportNext == ExportColumn \/ ExportFinish
SpecExport == ExportInit /\ [][ExportNext]_vars

RotInit ==
    /\ ReconIdle /\ SourceIdle /\ PieceIdle /\ RotInputs
    /\ ValIdle /\ ExtIdle /\ InputIdle
RotNext == CreateMasterSheet \/ ExportColumn \/ ExportFinish \/ ReadSummary
SpecRotation == RotInit /\ [][RotNext]_vars

ValInit ==
    /\ ReconIdle /\ SourceIdle /\ PieceIdle /\ ExportIdle /\ RotIdle
    /\ ValInputs /\ ExtIdle /\ InputIdle
ValNext == ValidatePiece \/ ReturnData \/ ExtractPieces
SpecValidate == ValInit /\ [][ValNext]_vars

ExtInit ==
    /\ ReconIdle /\ SourceIdle /\ PieceIdle /\ ExportIdle /\ RotIdle
    /\ ValIdle /\ ExtInputs /\ InputIdle
ExtNext == ExtractPieces
SpecExtract == ExtInit /\ [][ExtNext]_vars

DefInit ==
    /\ ReconIdle /\ SourceIdle /\ PieceIdle /\ ExportIdle /\ RotIdle
    /\ ValIdle /\ ExtIdle /\ DefInputs /\ VolIdle /\ TplIdle /\ ToolIdle
DefNext == ReadPiece \/ FinishPieces
SpecDefinitions == DefInit /\ [][DefNext]_vars

VolInit ==
    /\ ReconIdle /\ SourceIdle /\ PieceIdle /\ ExportIdle /\ RotIdle
    /\ ValIdle /\ ExtIdle /\ DefIdle /\ VolInputs /\ TplIdle /\ ToolIdle
VolNext == ReadVolunteer \/ FinishVolunteers
SpecVolunteers == VolInit /\ [][VolNext]_vars

TplInit ==
    /\ ReconIdle /\ SourceIdle /\ PieceIdle /\ ExportIdle /\ RotIdle
    /\ ValIdle /\ ExtIdle /\ DefIdle /\ VolIdle /\ TplInputs /\ ToolIdle
TplNext == ReadTemplate
SpecTemplate == TplInit /\ [][TplNext]_vars

CreateInit == CoreIdle /\ CreateInputs /\ LinkIdle /\ NoteIdle /\ LateIdle
CreateNext ==
    \/ StartCreateSheet \/ CreateSpreadsheet \/ AddPermissions \/ ShareSpreadsheet
    \/ PopulateSpreadsheet \/ WriteIndex
    \/ ImportCreate \/ ImportPermissions \/ ImportPieceSheets
SpecCreate == CreateInit /\ [][CreateNext]_vars

LinkInit == CoreIdle /\ CreateIdle /\ LinkInputs /\ NoteIdle /\ LateIdle
LinkNext == WriteHyperlink \/ ReadHyperlink
SpecHyperlink == LinkInit /\ [][LinkNext]_vars

NoteInit == CoreIdle /\ CreateIdle /\ LinkIdle /\ NoteInputs /\ LateIdle
NoteNext == WriteNote \/ ReadNote
SpecNotes == NoteInit /\ [][NoteNext]_vars

\* the entry points that take a strict flag, one of them per behaviour
StrictInit ==
    /\ ReconIdle /\ SourceIdle /\ PieceIdle /\ ExportIdle /\ RotIdle /\ DefIdle
    /\ ToolIdle
    /\ \/ ValInputs /\ ExtIdle /\ VolIdle /\ TplIdle
       \/ ValIdle /\ ExtIdle /\ VolInputs /\ TplIdle
       \/ ValIdle /\ ExtIdle /\ VolIdle /\ TplInputs
StrictNext ==
    \/ ValidatePiece \/ ReturnData \/ ExtractPieces
    \/ ReadVolunteer \/ FinishVolunteers
    \/ ReadTemplate
SpecStrict == StrictInit /\ [][StrictNext]_vars

SheetInit == EarlyIdle /\ SheetInputs /\ FixIdle /\ WsIdle /\ CacheIdle
SheetNext == CreateSheet \/ VolunteerEdit \/ ExportSheet
SpecSheet == SheetInit /\ [][SheetNext]_vars

FixInit == EarlyIdle /\ SheetIdle /\ FixInputs /\ WsIdle /\ CacheIdle
FixNext ==
    StartFixInput \/ FixInputSettings \/ FixInputPieces \/ FixInputVolunteers
        \/ FixInputIndex
SpecFixInput == FixInit /\ [][FixNext]_vars

WsInit == EarlyIdle /\ SheetIdle /\ FixIdle /\ WsInputs /\ CacheIdle
WsNext == AddTempSheet \/ DeleteExisting \/ CreatePieceSheet \/ DeleteTempSheet
SpecWorksheets == WsInit /\ [][WsNext]_vars

CacheInit == EarlyIdle /\ SheetIdle /\ FixIdle /\ WsIdle /\ CacheInputs
CacheNext == ReadSettings
SpecSettings == CacheInit /\ [][CacheNext]_vars

====
